---------------------------- MODULE Spec2Model ----------------------------
(***************************************************************************)
(* A model of the configuration store of claude-manager                    *)
(* (src/src/claude_manager/config.py, ClaudeConfigManager) and of its      *)
(* project model (src/src/claude_manager/models.py, Project).              *)
(*                                                                         *)
(* Files hold text.  Text is modelled as a sequence of JSON tokens (the    *)
(* separators and the indentation json.dump writes are left out), so that  *)
(* a file that was written only in part is a proper prefix of a            *)
(* serialization and json.load has something to reject.                    *)
(***************************************************************************)
EXTENDS Integers, Sequences, FiniteSets, TLC

(***************************************************************************)
(* Bounds of the model.                                                    *)
(***************************************************************************)
\* the clock of the store specification advances at most this many ticks
MaxTicks == 1
\* a write that fails, or is cut by a crash, leaves at most this many tokens
MaxCut == 1
\* the clock of the backup specification advances at most this many ticks
MaxBackupTicks == 10
\* create_backup calls counted in the backup specification
MaxCalls == 11
\* keep_count arguments tried on _clean_old_backups
MaxKeep == 2
\* a caller appends to a history list only while it is shorter than this
MaxHistory == 2
\* the entries a user asks to keep of a history
MaxKeepRecent == 1

(***************************************************************************)
(* JSON values, as Python holds them after json.load: every value carries  *)
(* its type, as isinstance sees it.                                        *)
(***************************************************************************)
JNull == [t |-> "null", v |-> 0]
JBool(b) == [t |-> "bool", v |-> b]
JInt(n) == [t |-> "int", v |-> n]
JStr(s) == [t |-> "str", v |-> s]
JArr(s) == [t |-> "arr", v |-> s]
JObj(f) == [t |-> "obj", v |-> f]

EmptyMap == [k \in {} |-> JNull]
EmptyDict == JObj(EmptyMap)
EmptyList == JArr(<<>>)

\* isinstance(x, dict)
IsDict(x) == x.t = "obj"

\* d.get(k, default) on a dict
DictGet(d, k, default) == IF k \in DOMAIN d.v THEN d.v[k] ELSE default

\* d[k] = x on a dict
DictSet(d, k, x) == JObj((k :> x) @@ d.v)

\* del d[k] on a dict
DictDel(d, k) == JObj([j \in (DOMAIN d.v) \ {k} |-> d.v[j]])

(***************************************************************************)
(* Text.  A token is <<kind, text>>: punctuation "p", a string "s", a      *)
(* number "n", or one of the literals true, false, null "l".               *)
(***************************************************************************)
Tok(kind, text) == <<kind, text>>
LBrace == Tok("p", "{")
RBrace == Tok("p", "}")
LBrack == Tok("p", "[")
RBrack == Tok("p", "]")

Numerals == <<"0", "1", "2", "3", "4", "5", "6", "7", "8", "9">>
\* a json.dump that writes every number as 0
NumStrZero(n) == Numerals[1]
NumStr(n) == Numerals[n + 1]
NumVal(s) == (CHOOSE i \in 1..Len(Numerals) : Numerals[i] = s) - 1
IsNumeral(s) == \E i \in 1..Len(Numerals) : Numerals[i] = s

\* The storage keys of a project entry, in the order Project.to_dict writes them.
ProjectKeys ==
    << "allowedTools", "history", "mcpServers", "enabledMcpjsonServers",
       "disabledMcpjsonServers", "enableAllProjectMcpServers",
       "hasTrustDialogAccepted", "ignorePatterns", "projectOnboardingSeenCount",
       "hasClaudeMdExternalIncludesApproved",
       "hasClaudeMdExternalIncludesWarningShown", "dontCrawlDirectory",
       "mcpContextUris" >>

\* Every key the model uses.  Python writes a dict in insertion order; the
\* model writes it in this fixed order (dict equality ignores the order).
KeyOrder ==
    << "numStartups", "firstStartTime", "oauthAccount", "emailAddress",
       "organizationName", "projects", "/p1", "/p2", "display", "url", "srv",
       "customKey", "lastCost" >> \o ProjectKeys

KeysOf(f) == SelectSeq(KeyOrder, LAMBDA k : k \in DOMAIN f)

RECURSIVE Serialize(_), SerializeMembers(_, _), SerializeItems(_)
\* json.dump(x, f): the text of x
Serialize(x) ==
    CASE x.t = "obj" -> <<LBrace>> \o SerializeMembers(x.v, KeysOf(x.v)) \o <<RBrace>>
      [] x.t = "arr" -> <<LBrack>> \o SerializeItems(x.v) \o <<RBrack>>
      [] x.t = "str" -> <<Tok("s", x.v)>>
      [] x.t = "int" -> <<Tok("n", NumStr(x.v))>>
      [] x.t = "bool" -> <<Tok("l", IF x.v THEN "true" ELSE "false")>>
      [] x.t = "null" -> <<Tok("l", "null")>>
SerializeMembers(f, keys) ==
    IF keys = <<>> THEN <<>>
    ELSE <<Tok("s", Head(keys))>> \o Serialize(f[Head(keys)])
         \o SerializeMembers(f, Tail(keys))
SerializeItems(s) ==
    IF s = <<>> THEN <<>> ELSE Serialize(Head(s)) \o SerializeItems(Tail(s))

\* The result of a parse that began at a position of a text: ok, the value,
\* and the position after it.
ParseFail == [ok |-> FALSE, val |-> JNull, next |-> 0]
ParseOk(x, next) == [ok |-> TRUE, val |-> x, next |-> next]

RECURSIVE ParseValue(_, _), ParseMembers(_, _, _), ParseItems(_, _, _)
\* the JSON value that begins at position i of ts
ParseValue(ts, i) ==
    IF i > Len(ts) THEN ParseFail
    ELSE LET h == ts[i] IN
         CASE h = LBrace -> ParseMembers(ts, i + 1, EmptyMap)
           [] h = LBrack -> ParseItems(ts, i + 1, <<>>)
           [] h[1] = "s" -> ParseOk(JStr(h[2]), i + 1)
           [] h[1] = "n" /\ IsNumeral(h[2]) -> ParseOk(JInt(NumVal(h[2])), i + 1)
           [] h = Tok("l", "true") -> ParseOk(JBool(TRUE), i + 1)
           [] h = Tok("l", "false") -> ParseOk(JBool(FALSE), i + 1)
           [] h = Tok("l", "null") -> ParseOk(JNull, i + 1)
           [] OTHER -> ParseFail
\* the members of an object, up to its closing brace; a key met again
\* replaces the earlier one
ParseMembers(ts, i, acc) ==
    IF i > Len(ts) THEN ParseFail
    ELSE IF ts[i] = RBrace THEN ParseOk(JObj(acc), i + 1)
    ELSE IF ts[i][1] # "s" THEN ParseFail
    ELSE LET r == ParseValue(ts, i + 1) IN
         IF ~r.ok THEN ParseFail
         ELSE ParseMembers(ts, r.next, DictSet(JObj(acc), ts[i][2], r.val).v)
\* the items of an array, up to its closing bracket
ParseItems(ts, i, acc) ==
    IF i > Len(ts) THEN ParseFail
    ELSE IF ts[i] = RBrack THEN ParseOk(JArr(acc), i + 1)
    ELSE LET r == ParseValue(ts, i) IN
         IF ~r.ok THEN ParseFail ELSE ParseItems(ts, r.next, Append(acc, r.val))

\* json.load(f): the value of a whole text, or a JSONDecodeError (ok = FALSE)
json_load(ts) ==
    LET r == ParseValue(ts, 1) IN
    IF r.ok /\ r.next = Len(ts) + 1 THEN r ELSE ParseFail


Max(a, b) == IF a > b THEN a ELSE b
Min(a, b) == IF a < b THEN a ELSE b

Range(s) == {s[i] : i \in 1..Len(s)}

Prefix(ts, n) == SubSeq(ts, 1, n)
\* what a write of ts that fails part-way leaves behind
Partial(ts) == Prefix(ts, Max(0, Min(MaxCut, Len(ts) - 1)))

(***************************************************************************)
(* models.py: the Project dataclass.  A Project is a record of its fields. *)
(***************************************************************************)
\* Project(path): every other field takes its default_factory / default
NewProject(path) ==
    [ path |-> path,
      allowed_tools |-> EmptyList,
      history |-> EmptyList,
      mcp_servers |-> EmptyDict,
      enabled_mcpjson_servers |-> EmptyList,
      disabled_mcpjson_servers |-> EmptyList,
      enable_all_project_mcp_servers |-> JBool(FALSE),
      has_trust_dialog_accepted |-> JBool(FALSE),
      ignore_patterns |-> EmptyList,
      project_onboarding_seen_count |-> JInt(0),
      has_claude_md_external_includes_approved |-> JBool(FALSE),
      has_claude_md_external_includes_warning_shown |-> JBool(FALSE),
      dont_crawl_directory |-> JBool(FALSE),
      mcp_context_uris |-> EmptyList ]

\* Project.to_dict
to_dict(p) ==
    JObj([k \in {ProjectKeys[i] : i \in 1..Len(ProjectKeys)} |->
        CASE k = "allowedTools" -> p.allowed_tools
          [] k = "history" -> p.history
          [] k = "mcpServers" -> p.mcp_servers
          [] k = "enabledMcpjsonServers" -> p.enabled_mcpjson_servers
          [] k = "disabledMcpjsonServers" -> p.disabled_mcpjson_servers
          [] k = "enableAllProjectMcpServers" -> p.enable_all_project_mcp_servers
          [] k = "hasTrustDialogAccepted" -> p.has_trust_dialog_accepted
          [] k = "ignorePatterns" -> p.ignore_patterns
          [] k = "projectOnboardingSeenCount" -> p.project_onboarding_seen_count
          [] k = "hasClaudeMdExternalIncludesApproved" ->
                 p.has_claude_md_external_includes_approved
          [] k = "hasClaudeMdExternalIncludesWarningShown" ->
                 p.has_claude_md_external_includes_warning_shown
          [] k = "dontCrawlDirectory" -> p.dont_crawl_directory
          [] k = "mcpContextUris" -> p.mcp_context_uris])

\* the fields of a Project other than path, in the order of ProjectKeys
FieldNames ==
    << "allowed_tools", "history", "mcp_servers", "enabled_mcpjson_servers",
       "disabled_mcpjson_servers", "enable_all_project_mcp_servers",
       "has_trust_dialog_accepted", "ignore_patterns",
       "project_onboarding_seen_count", "has_claude_md_external_includes_approved",
       "has_claude_md_external_includes_warning_shown", "dont_crawl_directory",
       "mcp_context_uris" >>

\* the storage key of a field, and the field of a storage key
StorageKey(f) == ProjectKeys[CHOOSE i \in 1..Len(FieldNames) : FieldNames[i] = f]
FieldName(k) == FieldNames[CHOOSE i \in 1..Len(ProjectKeys) : ProjectKeys[i] = k]

\* a from_dict that reads the enabled servers from the key of the disabled
\* ones, and the disabled from the key of the enabled
from_dict_swapped(path, data) ==
    [f \in DOMAIN NewProject(path) |->
        IF f = "path" THEN path
        ELSE DictGet(data,
                     StorageKey(CASE f = "enabled_mcpjson_servers" -> "disabled_mcpjson_servers"
                                  [] f = "disabled_mcpjson_servers" -> "enabled_mcpjson_servers"
                                  [] OTHER -> f),
                     NewProject(path)[f])]

\* a from_dict that calls data.get(key) without a default
from_dict_no_defaults(path, data) ==
    [f \in DOMAIN NewProject(path) |->
        IF f = "path" THEN path ELSE DictGet(data, StorageKey(f), JNull)]

\* Project.from_dict
from_dict(path, data) ==
    [ path |-> path,
      allowed_tools |-> DictGet(data, "allowedTools", EmptyList),
      history |-> DictGet(data, "history", EmptyList),
      mcp_servers |-> DictGet(data, "mcpServers", EmptyDict),
      enabled_mcpjson_servers |-> DictGet(data, "enabledMcpjsonServers", EmptyList),
      disabled_mcpjson_servers |-> DictGet(data, "disabledMcpjsonServers", EmptyList),
      enable_all_project_mcp_servers |->
          DictGet(data, "enableAllProjectMcpServers", JBool(FALSE)),
      has_trust_dialog_accepted |-> DictGet(data, "hasTrustDialogAccepted", JBool(FALSE)),
      ignore_patterns |-> DictGet(data, "ignorePatterns", EmptyList),
      project_onboarding_seen_count |-> DictGet(data, "projectOnboardingSeenCount", JInt(0)),
      has_claude_md_external_includes_approved |->
          DictGet(data, "hasClaudeMdExternalIncludesApproved", JBool(FALSE)),
      has_claude_md_external_includes_warning_shown |->
          DictGet(data, "hasClaudeMdExternalIncludesWarningShown", JBool(FALSE)),
      dont_crawl_directory |-> DictGet(data, "dontCrawlDirectory", JBool(FALSE)),
      mcp_context_uris |-> DictGet(data, "mcpContextUris", EmptyList) ]

(***************************************************************************)
(* The inputs the model draws from.                                        *)
(***************************************************************************)
HistoryEntry(d) == JObj([k \in {"display"} |-> JStr(d)])

\* the projects a caller hands to update_project
ProjectA ==
    [NewProject("/p1") EXCEPT !.history = JArr(<<HistoryEntry("c1")>>),
                              !.has_trust_dialog_accepted = JBool(TRUE),
                              !.project_onboarding_seen_count = JInt(1)]
ProjectB ==
    [NewProject("/p2") EXCEPT !.mcp_servers =
        JObj([k \in {"srv"} |-> JObj([j \in {"url"} |-> JStr("u1")])])]
ProjectInputs == {ProjectA, ProjectB}
PathInputs == {"/p1", "/p2"}

\* a Project none of whose fields holds its default
ProjectFull ==
    [ path |-> "/p1",
      allowed_tools |-> JArr(<<JStr("Bash")>>),
      history |-> JArr(<<HistoryEntry("c1")>>),
      mcp_servers |-> JObj([k \in {"srv"} |-> JObj([j \in {"url"} |-> JStr("u1")])]),
      enabled_mcpjson_servers |-> JArr(<<JStr("on")>>),
      disabled_mcpjson_servers |-> JArr(<<JStr("off")>>),
      enable_all_project_mcp_servers |-> JBool(TRUE),
      has_trust_dialog_accepted |-> JBool(TRUE),
      ignore_patterns |-> JArr(<<JStr("*.pyc")>>),
      project_onboarding_seen_count |-> JInt(3),
      has_claude_md_external_includes_approved |-> JBool(TRUE),
      has_claude_md_external_includes_warning_shown |-> JBool(TRUE),
      dont_crawl_directory |-> JBool(TRUE),
      mcp_context_uris |-> JArr(<<JStr("file:///ctx")>>) ]

\* the Project values to_dict is applied to: fields at their defaults or
\* not, in every combination of five of them, and a Project constructed
\* with None for its history (the dataclass checks no types)
ProjectValues ==
    { [NewProject(path) EXCEPT !.allowed_tools = a, !.history = h, !.mcp_servers = m,
                               !.has_trust_dialog_accepted = t,
                               !.project_onboarding_seen_count = c] :
        path \in {"/p1"},
        a \in {EmptyList, ProjectFull.allowed_tools},
        h \in {EmptyList, ProjectFull.history},
        m \in {EmptyDict, ProjectFull.mcp_servers},
        t \in {JBool(FALSE), JBool(TRUE)},
        c \in {JInt(0), JInt(3)} }
    \cup {ProjectFull, ProjectA, ProjectB, [NewProject("/p2") EXCEPT !.history = JNull]}

\* the raw maps from_dict is applied to: the map of ProjectFull without the
\* keys of a set, for every set of keys
RawMissing ==
    { JObj([k \in (DOMAIN to_dict(ProjectFull).v) \ absent |-> to_dict(ProjectFull).v[k]]) :
        absent \in SUBSET Range(ProjectKeys) }

\* values of a shape no field documents for itself: null, and a number for
\* a list, a dict or a flag, a string for the counter
WrongValues(k) ==
    IF k = "projectOnboardingSeenCount" THEN {JNull, JStr("3")} ELSE {JNull, JInt(7)}

\* the map of ProjectFull with one key holding a value of the wrong shape
RawWrong ==
    UNION { {DictSet(to_dict(ProjectFull), k, x) : x \in WrongValues(k)} :
              k \in Range(ProjectKeys) }

\* a configuration file as Claude Code writes it
Config0 ==
    JObj([k \in {"numStartups", "projects"} |->
        IF k = "numStartups" THEN JInt(1)
        ELSE JObj([p \in {"/p1"} |->
                 JObj([j \in {"history", "projectOnboardingSeenCount"} |->
                     IF j = "history"
                     THEN JArr(<<HistoryEntry("c0"), HistoryEntry("c1")>>)
                     ELSE JInt(2)])])])

\* a configuration file with the metadata Claude Code keeps beside the
\* projects, and a key this program does not know
ConfigMeta ==
    JObj([k \in {"numStartups", "firstStartTime", "oauthAccount", "customKey",
                 "projects"} |->
        CASE k = "numStartups" -> JInt(3)
          [] k = "firstStartTime" -> JStr("2024-01-01T00:00:00.000Z")
          [] k = "oauthAccount" ->
                 JObj([j \in {"emailAddress", "organizationName"} |->
                     IF j = "emailAddress" THEN JStr("test@example.com")
                     ELSE JStr("Test Organization")])
          [] k = "customKey" -> JArr(<<JNull, JBool(TRUE)>>)
          [] k = "projects" -> Config0.v["projects"]])

\* a configuration file whose project entry holds a key Claude Code keeps
\* there and Project has no field for
ConfigExtra ==
    DictSet(Config0, "projects",
        JObj([p \in {"/p1"} |->
            DictSet(Config0.v["projects"].v["/p1"], "lastCost", JInt(1))]))

\* what the configuration file holds when the program starts; {} is no file
InitConfigTexts ==
    { Serialize(Config0), Serialize(EmptyDict), Serialize(EmptyList),
      Serialize(JNull), Prefix(Serialize(Config0), 3) }

(***************************************************************************)
(* The file system: a directory maps the names of its files to their text. *)
(***************************************************************************)
NoFiles == [q \in {} |-> <<>>]
Exists(d, q) == q \in DOMAIN d
\* open(q, "w"), write, close; shutil.copy2 onto q
PutFile(d, q, text) == (q :> text) @@ d
\* q.unlink()
DelFile(d, q) == [r \in (DOMAIN d) \ {q} |-> d[r]]

\* self.config_path, and temp_path = self.config_path.with_suffix(".tmp")
ConfigPath == "claude.json"
TempPath == "claude.tmp"

(***************************************************************************)
(* Backup file names.  datetime.now() is an instant t of the clock, and    *)
(* strftime("%Y%m%d_%H%M%S_%f") writes it as fixed-width fields: here the  *)
(* seconds and the fraction of a second (two fractions to a second).  A    *)
(* name is the sequence of its fields; names of the older format have no   *)
(* fraction.  Paths sort as their text does: field by field, and a name    *)
(* that ends first ("." sorts before "_") comes first.                     *)
(***************************************************************************)
strftime(t) == <<t \div 2, t % 2>>
\* self.backup_dir / f"claude_{timestamp}.json"
BackupName(t) == strftime(t)

NameLess(a, b) ==
    \/ \E i \in 1..Len(a) :
          /\ i <= Len(b)
          /\ a[i] < b[i]
          /\ \A j \in 1..(i - 1) : a[j] = b[j]
    \/ /\ Len(a) < Len(b)
       /\ \A j \in 1..Len(a) : a[j] = b[j]

RECURSIVE SortNames(_)
\* sorted(self.backup_dir.glob("claude_*.json")), as names
SortNames(S) ==
    IF S = {} THEN <<>>
    ELSE LET m == CHOOSE x \in S : \A y \in S \ {x} : NameLess(x, y)
         IN <<m>> \o SortNames(S \ {m})

\* a slice that stops one backup early: backups[:-keep_count - 1]
SliceOldShort(backups, keep_count) == SubSeq(backups, 1, Len(backups) - keep_count - 1)

\* backups[:-keep_count]:  Python reads the stop -0 as 0
SliceOld(backups, keep_count) ==
    IF keep_count = 0 THEN <<>>
    ELSE SubSeq(backups, 1, Len(backups) - keep_count)

\* _clean_old_backups's choice: the backups it unlinks, oldest name first
OldBackups(dir, keep_count) ==
    LET backups == SortNames(DOMAIN dir) IN
    IF Len(backups) > keep_count THEN SliceOld(backups, keep_count) ELSE <<>>

\* _clean_old_backups(keep_count).  unlink_fails: the first unlink raises
\* OSError, which ends the loop and leaves the method.
clean_old_backups(dir, keep_count, unlink_fails) ==
    LET old == OldBackups(dir, keep_count) IN
    IF unlink_fails /\ old # <<>>
    THEN [dir |-> dir, raised |-> TRUE]
    ELSE [dir |-> [q \in (DOMAIN dir) \ Range(old) |-> dir[q]], raised |-> FALSE]

\* the default of _clean_old_backups's keep_count
KeepCountDefault == 10

\* create_backup() from line 105 on, the configuration file being there.
\* files: the directory of the configuration file; t: the clock; fault:
\* "none", "copy" (copy2 raises part-way through the text) or "unlink" (an
\* unlink of the rotation raises).  ret is "Path" or "None".
backup_existing(dir, files, t, fault) ==
    LET backup_path == BackupName(t) IN
    IF fault = "copy"
    THEN [ dir |-> PutFile(dir, backup_path, Partial(files[ConfigPath])),
           ret |-> "None", name |-> backup_path ]
    ELSE LET copied == PutFile(dir, backup_path, files[ConfigPath])
             cleaned == clean_old_backups(copied, KeepCountDefault, fault = "unlink")
         IN [ dir |-> cleaned.dir,
              ret |-> IF cleaned.raised THEN "None" ELSE "Path",
              name |-> backup_path ]

\* a create_backup that opens the backup file before it looks for the
\* configuration file, and leaves it empty when there is none
create_backup_touch(dir, files, t, fault) ==
    IF ~Exists(files, ConfigPath)
    THEN [dir |-> PutFile(dir, BackupName(t), <<>>), ret |-> "None", name |-> <<>>]
    ELSE backup_existing(dir, files, t, fault)

\* create_backup()
create_backup(dir, files, t, fault) ==
    IF ~Exists(files, ConfigPath)
    THEN [dir |-> dir, ret |-> "None", name |-> <<>>]
    ELSE backup_existing(dir, files, t, fault)

\* the faults that can be injected into create_backup in a state
BackupFaults(dir, files, t) ==
    {"none"}
    \cup (IF Exists(files, ConfigPath) THEN {"copy"} ELSE {})
    \cup (IF /\ Exists(files, ConfigPath)
             /\ OldBackups(PutFile(dir, BackupName(t), <<>>), KeepCountDefault) # <<>>
          THEN {"unlink"} ELSE {})

Reverse(s) == [i \in 1..Len(s) |-> s[Len(s) + 1 - i]]

\* get_backups(): sorted(self.backup_dir.glob("claude_*.json"), reverse=True)
get_backups(dir) == Reverse(SortNames(DOMAIN dir))

(***************************************************************************)
(* get_projects()                                                          *)
(***************************************************************************)
get_projects(config) ==
    LET raw == DictGet(config, "projects", EmptyDict) IN
    [path \in DOMAIN raw.v |-> from_dict(path, raw.v[path])]

\* What a caller does to a Project that get_projects() returned, without
\* calling update_project: project.history.clear(),
\* project.history.append(entry), project.mcp_servers[name] = server
Mutations == {"clear_history", "append_history", "add_mcp_server"}

\* the storage key of the field a mutation changes
MutatedKey(mutation) == IF mutation = "add_mcp_server" THEN "mcpServers" ELSE "history"

\* the list or dict x after the mutation
Mutated(mutation, x) ==
    CASE mutation = "clear_history" -> EmptyList
      [] mutation = "append_history" -> JArr(Append(x.v, HistoryEntry("c1")))
      [] mutation = "add_mcp_server" ->
             DictSet(x, "srv", JObj([j \in {"url"} |-> JStr("u1")]))

\* self.config_data after the caller mutated get_projects()[path].
\* Project.from_dict passes data.get(key, default) to the constructor: when
\* the stored entry has the key, the Project's field is the very list or
\* dict object the store holds, and a change made through the Project is a
\* change of the store's object; when it has not, the field is a new object
\* and the store is not reached.
mutate_project(config, path, mutation) ==
    LET projects == config.v["projects"]
        data == projects.v[path]
        key == MutatedKey(mutation)
    IN IF key \in DOMAIN data.v
       THEN DictSet(config, "projects",
                DictSet(projects, path,
                    DictSet(data, key, Mutated(mutation, data.v[key]))))
       ELSE config

(***************************************************************************)
(* load_config, remove_project, update_project, restore_from_backup as     *)
(* functions of the state they read; the actions below apply them.         *)
(***************************************************************************)
\* a load_config without the isinstance check of lines 46-49
load_config_any(config, files, fault) ==
    IF ~Exists(files, ConfigPath) THEN [config |-> config, ret |-> "False"]
    ELSE IF fault = "read" THEN [config |-> config, ret |-> "False"]
    ELSE LET r == json_load(files[ConfigPath]) IN
         IF ~r.ok THEN [config |-> config, ret |-> "False"]
         ELSE [config |-> r.val, ret |-> "True"]

\* load_config().  fault "read": open or read raises OSError.
load_config(config, files, fault) ==
    IF ~Exists(files, ConfigPath) THEN [config |-> config, ret |-> "False"]
    ELSE IF fault = "read" THEN [config |-> config, ret |-> "False"]
    ELSE LET r == json_load(files[ConfigPath]) IN
         IF ~r.ok THEN [config |-> config, ret |-> "False"]
         ELSE IF ~IsDict(r.val) THEN [config |-> EmptyDict, ret |-> "False"]
         ELSE [config |-> r.val, ret |-> "True"]

\* a remove_project that empties the projects map
remove_project_all(config, project_path) ==
    IF project_path \in DOMAIN DictGet(config, "projects", EmptyDict).v
    THEN [config |-> DictSet(config, "projects", EmptyDict), ret |-> "True"]
    ELSE [config |-> config, ret |-> "False"]

\* remove_project(project_path)
remove_project(config, project_path) ==
    IF project_path \in DOMAIN DictGet(config, "projects", EmptyDict).v
    THEN [ config |-> DictSet(config, "projects",
                              DictDel(config.v["projects"], project_path)),
           ret |-> "True" ]
    ELSE [config |-> config, ret |-> "False"]

\* an update_project that starts a new projects map for the project
update_project_alone(config, project) ==
    [ config |-> DictSet(config, "projects",
                         DictSet(EmptyDict, project.path, to_dict(project))),
      ret |-> "True" ]

\* an update_project that builds the configuration anew around the projects
update_project_fresh(config, project) ==
    [ config |-> DictSet(EmptyDict, "projects",
                         DictSet(DictGet(config, "projects", EmptyDict),
                                 project.path, to_dict(project))),
      ret |-> "True" ]

\* update_project(project)
update_project(config, project) ==
    LET c == IF "projects" \notin DOMAIN config.v
             THEN DictSet(config, "projects", EmptyDict) ELSE config
    IN [ config |-> DictSet(c, "projects",
                            DictSet(c.v["projects"], project.path, to_dict(project))),
         ret |-> "True" ]

\* len(x) is defined for a list and a dict; for None, a number or a flag
\* it raises TypeError
HasLen(x) == x.t \in {"arr", "obj"}
len(x) == IF x.t = "arr" THEN Len(x.v) ELSE Cardinality(DOMAIN x.v)

\* Project.history_count
history_count(p) == len(p.history)

\* a sum that stops at its first term
SumOverOne(f, S) == IF S = {} THEN 0 ELSE f[CHOOSE x \in S : TRUE]

RECURSIVE SumOver(_, _)
\* sum(f[q] for q in S)
SumOver(f, S) ==
    IF S = {} THEN 0
    ELSE LET q == CHOOSE x \in S : TRUE IN f[q] + SumOver(f, S \ {q})

\* get_config_size(): st_size of the configuration file, counted here in
\* tokens of its text; 0 when there is no file
get_config_size(files) == IF Exists(files, ConfigPath) THEN Len(files[ConfigPath]) ELSE 0

\* get_stats()
get_stats(config, files) ==
    LET projects == get_projects(config)
        total_history == SumOver([q \in DOMAIN projects |-> history_count(projects[q])],
                                 DOMAIN projects)
        total_mcp_servers == SumOver([q \in DOMAIN projects |-> len(projects[q].mcp_servers)],
                                     DOMAIN projects)
    IN [ total_projects |-> Cardinality(DOMAIN projects),
         total_history_entries |-> total_history,
         total_mcp_servers |-> total_mcp_servers,
         config_size |-> get_config_size(files),
         num_startups |-> DictGet(config, "numStartups", JInt(0)),
         first_start_time |-> DictGet(config, "firstStartTime", JStr("N/A")),
         user_email |-> DictGet(DictGet(config, "oauthAccount", EmptyDict),
                                "emailAddress", JStr("N/A")),
         organization |-> DictGet(DictGet(config, "oauthAccount", EmptyDict),
                                  "organizationName", JStr("N/A")) ]

\* a restore_from_backup that copies the file and does not reload (line 230)
restore_no_reload(config, files, dir, backup_path, fault) ==
    IF ~Exists(dir, backup_path)
    THEN [config |-> config, files |-> files, dir |-> dir, ret |-> "False"]
    ELSE [ config |-> config,
           files |-> PutFile(files, ConfigPath, dir[backup_path]),
           dir |-> dir, ret |-> "True" ]

\* restore_from_backup(backup_path) from line 220 on, the backup being
\* there.  fault "copy": copy2 raises part-way through writing the
\* configuration file; "read": the reload fails.  The result holds the
\* configuration in memory, the directory of the configuration file and
\* the backup directory after the call.
restore_existing(config, files, dir, backup_path, fault) ==
    IF fault = "copy"
    THEN [ config |-> config,
           files |-> PutFile(files, ConfigPath, Partial(dir[backup_path])),
           dir |-> dir, ret |-> "False" ]
    ELSE LET copied == PutFile(files, ConfigPath, dir[backup_path])
             loaded == load_config(config, copied, fault)
         IN IF ~Exists(copied, ConfigPath)
            THEN [config |-> config, files |-> copied, dir |-> dir, ret |-> "False"]
            ELSE [ config |-> loaded.config, files |-> copied, dir |-> dir,
                   ret |-> loaded.ret ]

\* a restore_from_backup that forgets the configuration in memory when the
\* backup is missing
restore_missing_clears(config, files, dir, backup_path, fault) ==
    IF ~Exists(dir, backup_path)
    THEN [config |-> EmptyDict, files |-> files, dir |-> dir, ret |-> "False"]
    ELSE restore_existing(config, files, dir, backup_path, fault)

\* a restore_from_backup that moves the backup (shutil.move) instead of
\* copying it
restore_by_move(config, files, dir, backup_path, fault) ==
    IF ~Exists(dir, backup_path)
    THEN [config |-> config, files |-> files, dir |-> dir, ret |-> "False"]
    ELSE [ restore_existing(config, files, dir, backup_path, fault)
           EXCEPT !.dir = DelFile(dir, backup_path) ]

\* restore_from_backup(backup_path)
restore_from_backup(config, files, dir, backup_path, fault) ==
    IF ~Exists(dir, backup_path)
    THEN [config |-> config, files |-> files, dir |-> dir, ret |-> "False"]
    ELSE restore_existing(config, files, dir, backup_path, fault)

(***************************************************************************)
(* The user interfaces: the handlers of tui.py, ui.py and simple_ui.py     *)
(* that change the configuration and save it.                              *)
(***************************************************************************)
\* a save_config that makes no backup whatever its argument
save_config_no_backup(config, files, dir, t, cb, bfault, sfault) ==
    IF sfault = "dump"
    THEN [files |-> DelFile(files, TempPath), dir |-> dir, ret |-> "False",
          bret |-> "-", bname |-> <<>>]
    ELSE [files |-> DelFile(PutFile(files, ConfigPath, Serialize(config)), TempPath),
          dir |-> dir, ret |-> "True", bret |-> "-", bname |-> <<>>]

\* save_config(create_backup) as one call: the backup when cb, then the
\* temporary file written, read back and moved into place.  sfault "dump":
\* json.dump raises, the handler unlinks the temporary file and the call
\* returns False.  bret is what create_backup returned, "-" when it was not
\* called.
save_config(config, files, dir, t, cb, bfault, sfault) ==
    LET b == IF cb THEN create_backup(dir, files, t, bfault)
             ELSE [dir |-> dir, ret |-> "-", name |-> <<>>]
    IN IF sfault = "dump"
       THEN [files |-> DelFile(files, TempPath), dir |-> b.dir, ret |-> "False",
             bret |-> b.ret, bname |-> b.name]
       ELSE [files |-> DelFile(PutFile(files, ConfigPath, Serialize(config)), TempPath),
             dir |-> b.dir, ret |-> "True", bret |-> b.ret, bname |-> b.name]

TuiHandlers ==
    { "tui._do_delete", "tui._do_clear_history", "tui.action_toggle_all",
      "tui._do_delete_server", "tui.save_server", "tui._do_clear_all",
      "tui._do_keep_recent" }
UiHandlers ==
    { "ui.edit_project.clear_history", "ui.edit_project.toggle_trust",
      "ui.remove_projects", "ui.manage_mcp_servers.toggle",
      "ui.clear_history.clear_all", "ui.clear_history.clear_specific",
      "ui.clear_history.keep_recent" }
SimpleUiHandlers ==
    { "simple_ui.remove_projects", "simple_ui.clear_history.clear_all",
      "simple_ui.clear_history.select" }
Handlers == TuiHandlers \cup UiHandlers \cup SimpleUiHandlers

\* How a handler asks for its backup: "checked", it calls create_backup()
\* and goes on only when a path came back, then save_config(create_backup=
\* False); "explicit", it calls create_backup(), drops the result, then
\* save_config(create_backup=False); "in_save", it calls save_config().
BackupStyle(h) ==
    CASE h \in { "ui.remove_projects", "ui.clear_history.clear_all",
                 "ui.clear_history.clear_specific", "ui.clear_history.keep_recent" }
             -> "checked"
      [] h \in { "tui._do_delete", "tui._do_clear_history", "tui._do_clear_all",
                 "tui._do_keep_recent" } \cup SimpleUiHandlers
             -> "explicit"
      [] OTHER -> "in_save"

\* what a handler changes
Change(h) ==
    CASE h \in {"tui._do_delete", "ui.remove_projects", "simple_ui.remove_projects"}
             -> "remove"
      [] h \in {"tui._do_keep_recent", "ui.clear_history.keep_recent"} -> "keep_recent"
      [] h \in {"tui.action_toggle_all", "ui.manage_mcp_servers.toggle"} -> "set_all"
      [] h = "ui.edit_project.toggle_trust" -> "toggle_trust"
      [] h = "tui._do_delete_server" -> "delete_server"
      [] h = "tui.save_server" -> "save_server"
      [] OTHER -> "clear_history"

\* history[-keep_count:]: the last keep_count entries for keep_count > 0.
\* Python reads the start -0 as 0, the whole list, and the start -keep_count
\* of a negative keep_count as an index from the front.
SliceRecent(history, keep_count) ==
    LET n == Len(history.v)
        start == IF keep_count > 0 THEN Max(1, n - keep_count + 1)
                 ELSE Min(n, -keep_count) + 1
    IN JArr(SubSeq(history.v, start, n))

\* the keep counts a handler takes from the user: KeepRecentDialog (tui.py)
\* passes on count > 0; ui.py passes int() of the answer, any integer
KeepCounts(h) ==
    IF h = "ui.clear_history.keep_recent" THEN (-1)..MaxKeepRecent
    ELSE 1..MaxKeepRecent

\* total_to_remove of ui.py's keep_recent: the number its prompt and its
\* message name, over the projects that have history
total_to_remove(projects, keep_count) ==
    SumOver([path \in DOMAIN projects |->
                Max(0, history_count(projects[path]) - keep_count)],
            {path \in DOMAIN projects : history_count(projects[path]) > 0})

\* what the screens and menus offer: a history is cleared or trimmed only
\* where there are entries to lose, a server deleted where it is, the
\* servers of ui.py toggled for a project that has some
Offered(h, project, keep_count) ==
    CASE h = "ui.edit_project.clear_history" -> TRUE
      [] Change(h) = "clear_history" -> history_count(project) > 0
      [] Change(h) = "keep_recent" -> history_count(project) > keep_count
      [] h = "tui._do_delete_server" -> "srv" \in DOMAIN project.mcp_servers.v
      [] h = "ui.manage_mcp_servers.toggle" -> len(project.mcp_servers) > 0
      [] OTHER -> TRUE

\* the Project a handler passes to update_project: what get_projects()
\* gave, with the handler's change; flag is the user's answer in
\* ui.manage_mcp_servers.toggle
Changed(h, project, keep_count, flag) ==
    CASE Change(h) = "clear_history" -> [project EXCEPT !.history = EmptyList]
      [] Change(h) = "keep_recent" ->
             [project EXCEPT !.history = SliceRecent(@, keep_count)]
      [] Change(h) = "set_all" ->
             [project EXCEPT !.enable_all_project_mcp_servers =
                 IF h = "tui.action_toggle_all" THEN JBool(~@.v) ELSE JBool(flag)]
      [] Change(h) = "toggle_trust" ->
             [project EXCEPT !.has_trust_dialog_accepted = JBool(~@.v)]
      [] Change(h) = "delete_server" ->
             [project EXCEPT !.mcp_servers = DictDel(@, "srv")]
      [] Change(h) = "save_server" ->
             [project EXCEPT !.mcp_servers =
                 DictSet(@, "srv", JObj([j \in {"url"} |-> JStr("u1")]))]

\* the store calls of a handler between its backup and its save:
\* remove_project(path), or update_project of the changed Project, project
\* being the Project the handler holds
apply_change(config, h, path, project, keep_count, flag) ==
    IF Change(h) = "remove" THEN remove_project(config, path)
    ELSE update_project(config, Changed(h, project, keep_count, flag))

\* The Projects a handler works on.  The screens of tui.py hold the
\* Project objects of ProjectListScreen.projects, which refresh_projects()
\* read: the list passes self.projects[project_path] to the screens it
\* opens.  The menus of ui.py and simple_ui.py call get_projects() each time.
Held(h, config, snapshot) ==
    IF h \in TuiHandlers THEN snapshot ELSE get_projects(config)

\* the module of a handler: one run of a program shows one interface
Interface(h) ==
    IF h \in TuiHandlers THEN "tui" ELSE IF h \in UiHandlers THEN "ui" ELSE "simple_ui"

\* the field of the Project a handler edits
Edited(h) ==
    CASE Change(h) \in {"clear_history", "keep_recent"} -> "history"
      [] Change(h) = "set_all" -> "enable_all_project_mcp_servers"
      [] Change(h) = "toggle_trust" -> "has_trust_dialog_accepted"
      [] Change(h) \in {"delete_server", "save_server"} -> "mcp_servers"
      [] OTHER -> "none"

\* the handlers of tui.py that call refresh_projects() after a save that
\* returned True
Refreshes(h) == h \in {"tui._do_delete", "tui._do_clear_history"}

\* a handler that goes on whatever create_backup returned
backup_allows_any(style, bret) == TRUE

\* "if backup_path:" of the handlers of ui.py that check it
backup_allows(style, bret) == style = "checked" => bret = "Path"

\* One handler, from the user's confirmation to its last store call.
\* ret: what save_config returned; "cancelled" when the handler gave up for
\* want of a backup; "unsaved" when tui._do_delete found nothing to remove.
\* bret, bname: what create_backup returned and the path it wrote, whether
\* the handler or save_config called it.
ui_operation(config, files, dir, t, h, path, project, keep_count, flag, bfault, sfault) ==
    LET style == BackupStyle(h)
        b == IF style = "in_save" THEN [dir |-> dir, ret |-> "-", name |-> <<>>]
             ELSE create_backup(dir, files, t, bfault)
        c == apply_change(config, h, path, project, keep_count, flag)
        s == save_config(c.config, files, b.dir, t, style = "in_save", bfault, sfault)
    IN IF ~backup_allows(style, b.ret)
       THEN [config |-> config, files |-> files, dir |-> b.dir, ret |-> "cancelled",
             bret |-> b.ret, bname |-> b.name]
       ELSE IF h = "tui._do_delete" /\ c.ret = "False"
       THEN [config |-> c.config, files |-> files, dir |-> b.dir, ret |-> "unsaved",
             bret |-> b.ret, bname |-> b.name]
       ELSE [config |-> c.config, files |-> s.files, dir |-> s.dir, ret |-> s.ret,
             bret |-> IF style = "in_save" THEN s.bret ELSE b.ret,
             bname |-> IF style = "in_save" THEN s.bname ELSE b.name]

\* The "Delete old backups" action of backup_management (ui.py), after the
\* confirmation: backup_files is what get_backups() listed when the screen
\* was opened, and the files of backup_files[:-keep_count] are unlinked when
\* the list is longer than keep_count.  to_delete is the number the prompt
\* and the message name.
delete_old_backups(dir, keep_count) ==
    LET backup_files == get_backups(dir) IN
    IF Len(backup_files) > keep_count
    THEN [ dir |-> [q \in (DOMAIN dir) \ Range(SliceOld(backup_files, keep_count)) |->
                       dir[q]],
           to_delete |-> Len(backup_files) - keep_count ]
    ELSE [dir |-> dir, to_delete |-> 0]

(***************************************************************************)
(* utils.SignalHandler and cli.main                                        *)
(***************************************************************************)
\* SignalHandler.__init__: the attributes of the new object, table being
\* the handlers of the process
SignalHandler_init(table) ==
    [original_sigint |-> table.SIGINT, exit_requested |-> FALSE]

\* SignalHandler.__enter__: the handlers of the process after it
SignalHandler_enter(table) ==
    [table EXCEPT !.SIGINT = "_handle_sigint", !.SIGTERM = "_handle_sigterm"]

\* SignalHandler.__exit__: the handlers of the process after it
SignalHandler_exit(table, handler) ==
    [table EXCEPT !.SIGINT = handler.original_sigint]

\* a main that runs the interface whatever load_config did
main_load_runs_anyway(outcome) ==
    [tui |-> TRUE, status |-> "-", message |-> "none"]

\* cli.main from the load on.  outcome: "True" or "False", what
\* load_config returned, or "raised", an Exception left the construction
\* of the store or the load.  tui: run_tui is called; status: the exit
\* status, "-" while the interface runs.
main_load(outcome) ==
    CASE outcome = "True" -> [tui |-> TRUE, status |-> "-", message |-> "none"]
      [] outcome = "False" ->
             [ tui |-> FALSE, status |-> "1",
               message |-> "Failed to load configuration. Exiting." ]
      [] OTHER -> [tui |-> FALSE, status |-> "1", message |-> "Error: "]

\* cli.main when run_tui ends.  how: "return"; "Exception" or
\* "KeyboardInterrupt", raised by run_tui; "SIGINT" or "SIGTERM", the
\* signal was delivered and the handler called sys.exit(0)
main_end(how) ==
    CASE how = "Exception" -> [status |-> "1", message |-> "Error: "]
      [] how = "KeyboardInterrupt" -> [status |-> "0", message |-> "Interrupted by user"]
      [] OTHER -> [status |-> "0", message |-> "none"]

(***************************************************************************)
(* The state.                                                              *)
(***************************************************************************)
VARIABLES
    config_data,  \* self.config_data
    fs,           \* the directory of the configuration file
    backup_dir,   \* self.backup_dir
    now,          \* the clock datetime.now() reads
    pc,           \* where save_config stands; "idle" between calls
    sv,           \* the save_config call under way
    last,         \* the last call that finished: what it returned and did
    saved,        \* what the last successful save_config wrote, while it is on disk
    tracked,      \* one create_backup call: its path and the state it was made in
    calls,        \* the create_backup calls made on a backup directory that began empty
    nfaults,      \* the calls that met a file-system failure so far
    applied,      \* the method of Project last applied: to what, and what it returned
    no_backup,    \* the --no-backup option the program was started with
    signals,      \* the handlers of the process: signal.signal, signal.getsignal
    signal_handler, \* the SignalHandler of cli.main
    main,         \* cli.main: how far it is and how it ended
    projects      \* ProjectListScreen.projects, what refresh_projects() read

vars == <<config_data, fs, backup_dir, now, pc, sv, last, saved, tracked, calls, nfaults,
          applied, no_backup, signals, signal_handler, main, projects>>

\* the calls of one behaviour that meet file-system failures
MaxFaults == 1

\* the clock starts after the seconds the older backups were made in
StartTime == 2 * KeepCountDefault

\* sv: create_backup's argument, the files before the call, the text of the
\* configuration in memory, whether a failure was injected, the result and
\* the path of the backup the call made, and the step that raised
NoSave == [ active |-> FALSE, cb |-> FALSE, pre |-> NoFiles, img |-> <<>>,
            faulted |-> FALSE, bret |-> "-", bname |-> <<>>, step |-> "none" ]

\* last: op, the call; ret, what it returned ("raised": an exception left
\* it); fault, the failure injected; name, the backup path it returned or
\* was given; for _clean_old_backups: n, its keep_count; m, the backups it
\* found; newest, it left exactly the n with the latest names, as they were;
\* kept, it deleted nothing; and for save_config: failed, the step that raised; cb, its
\* argument; existed, the configuration file existed before the call; same,
\* the configuration file is byte for byte what it was before the call; bak,
\* the backup with the latest name in the backup directory holds the text
\* the configuration file had before the call; bret, what the create_backup
\* it called returned; for "keep only recent entries": keep_count, the
\* user's answer; reported, the number of entries the message of ui.py says
\* were removed
NoOp == [ op |-> "new", ret |-> "-", fault |-> "none", name |-> <<>>, n |-> 0,
          m |-> 0, newest |-> FALSE, kept |-> FALSE, failed |-> "none", cb |-> FALSE, existed |-> FALSE,
          same |-> TRUE, bak |-> FALSE, bret |-> "-", keep_count |-> 0, reported |-> 0 ]
Did(op, ret, fault) == [NoOp EXCEPT !.op = op, !.ret = ret, !.fault = fault]
NotSaved == [valid |-> FALSE, cfg |-> EmptyDict]
\* tracked: name, the path create_backup returned; projects, get_projects()
\* at that call; sync, the configuration in memory was then the one in the
\* file; intact, no later create_backup has written the same path
NoTrack == [ on |-> FALSE, name |-> <<>>, projects |-> EmptyMap, sync |-> FALSE,
             intact |-> FALSE ]
\* calls: on, create_backup calls are counted (otherwise one is tracked);
\* empty, the backup directory began empty and nothing but create_backup has
\* touched it; k, the calls made; made, the instants of those that returned
\* a path
NoCalls == [on |-> FALSE, empty |-> FALSE, k |-> 0, made |-> {}]

\* ten backups of the older name format, made before the clock started
OldDir == [q \in {<<s>> : s \in 0..(KeepCountDefault - 1)} |-> Serialize(EmptyDict)]
\* ten backups whose names sort after every name the clock will give
FutureDir == [q \in {<<100 + s, 0>> : s \in 0..(KeepCountDefault - 1)} |->
                 Serialize(EmptyDict)]

\* two backups whose names sort after every name the clock will give: made
\* before the clock was set back, or in the hour that local time repeats
FutureFew == [q \in {<<100 + s, 0>> : s \in 0..1} |-> Serialize(EmptyDict)]

\* two backups of the older name format, made before the clock started
OldFew == [q \in {<<s>> : s \in 0..1} |-> Serialize(EmptyDict)]
\* the handlers a Python process starts with
PythonSignals == [SIGINT |-> "default_int_handler", SIGTERM |-> "SIG_DFL"]
\* signal_handler: state, "none" before SignalHandler() and then "entered"
\* or "exited"; original_sigint and exit_requested, its attributes; before,
\* the handlers of the process when __enter__ was called
NoSignalHandler == [ state |-> "none", original_sigint |-> "-", exit_requested |-> FALSE,
                     before |-> PythonSignals ]
\* main: state, "new", "tui" while run_tui runs, "exited"; load, what
\* load_config did ("raised": an exception left the construction or the
\* load); tui, run_tui was called; status, the exit status; message, what
\* was printed last; restored, a restore from the backup screen has
\* succeeded; interface, the module whose handlers have run on the store
\* ("tui", what main starts; "ui" or "simple_ui", classes a caller
\* constructs on a loaded store), "-" before the first
NotStarted == [ state |-> "new", load |-> "-", tui |-> FALSE, status |-> "-",
                message |-> "none", restored |-> FALSE, interface |-> "-" ]

\* applied: f, the method ("none": none yet); arg, the Project or the path
\* and raw map it is applied to; out, what it returned
NotApplied == [f |-> "none", arg |-> <<>>, out |-> <<>>]

InitFiles == {NoFiles} \cup {PutFile(NoFiles, ConfigPath, t) : t \in InitConfigTexts}

\* ClaudeConfigManager.__init__ on the files found: files, the directory of
\* the configuration file; dir, the backup directory; nf, the failures
\* already spent; count, create_backup calls are counted
Construct(files, dir, nf, count) ==
    /\ config_data = EmptyDict
    /\ fs = files
    /\ backup_dir = dir
    /\ now = StartTime
    /\ pc = "idle"
    /\ sv = NoSave
    /\ last = NoOp
    /\ saved = NotSaved
    /\ tracked = NoTrack
    /\ calls = [NoCalls EXCEPT !.on = count, !.empty = count /\ dir = NoFiles]
    /\ nfaults = nf
    /\ applied = NotApplied
    /\ no_backup = FALSE
    /\ signals = PythonSignals
    /\ signal_handler = NoSignalHandler
    /\ main = NotStarted
    /\ projects = EmptyMap

\* the store starts on any configuration file and an empty backup directory
Init == \E files \in InitFiles : Construct(files, NoFiles, 0, FALSE)

\* a failure is injected into a call only while the budget lasts
Faulty(fault) == IF fault = "none" THEN nfaults' = nfaults
                 ELSE nfaults < MaxFaults /\ nfaults' = nfaults + 1
\* the same for a step of save_config: a call that met one failure may meet more
FaultyStep(fault) == IF fault = "none" \/ sv.faulted THEN nfaults' = nfaults
                     ELSE nfaults < MaxFaults /\ nfaults' = nfaults + 1

\* a create_backup that writes the tracked path again
Retrack(b) ==
    IF tracked.on /\ b.name = tracked.name THEN [tracked EXCEPT !.intact = FALSE]
    ELSE tracked

\* The clock is read by create_backup alone, and only the order of the
\* instants it reads shows in the names: the clock is modelled as moving, or
\* not, right after a call that read it.
ClockRead == last.op = "create_backup" \/ (last.op = "save" /\ last.cb)

\* the clock advances
Tick ==
    /\ pc = "idle"
    /\ ClockRead
    /\ now < StartTime + MaxTicks
    /\ now' = now + 1
    /\ UNCHANGED <<config_data, fs, backup_dir, pc, sv, last, saved, tracked, calls, nfaults, applied, no_backup,
                   signals, signal_handler, main, projects>>

\* the process ends (a crash, when save_config is under way) and a new
\* ClaudeConfigManager is constructed on the same files
Restart ==
    /\ config_data' = EmptyDict
    /\ pc' = "idle"
    /\ sv' = NoSave
    /\ last' = NoOp
    /\ UNCHANGED <<fs, backup_dir, now, saved, tracked, calls, nfaults, applied, no_backup,
                   signals, signal_handler, main, projects>>

LoadConfigOp ==
    /\ pc = "idle"
    /\ \E fault \in {"none", "read"} :
          /\ fault = "read" => Exists(fs, ConfigPath)
          /\ Faulty(fault)
          /\ \E r \in {load_config(config_data, fs, fault)} :
             /\ config_data' = r.config
             /\ last' = Did("load", r.ret, fault)
    /\ UNCHANGED <<fs, backup_dir, now, pc, sv, saved, tracked, calls, applied, no_backup,
                   signals, signal_handler, main, projects>>

\* remove_project(path), called between saves
RemoveProject(path) ==
    /\ pc = "idle"
    /\ \E r \in {remove_project(config_data, path)} :
          /\ config_data' = r.config
          /\ last' = Did("remove", r.ret, "none")
    /\ UNCHANGED <<fs, backup_dir, now, pc, sv, saved, tracked, calls, nfaults, applied, no_backup,
                   signals, signal_handler, main, projects>>

RemoveProjectOp == \E path \in PathInputs : RemoveProject(path)

\* update_project(project), called between saves
UpdateProject(project) ==
    /\ pc = "idle"
    /\ \E r \in {update_project(config_data, project)} :
          /\ config_data' = r.config
          /\ last' = Did("update", r.ret, "none")
    /\ UNCHANGED <<fs, backup_dir, now, pc, sv, saved, tracked, calls, nfaults, applied, no_backup,
                   signals, signal_handler, main, projects>>

UpdateProjectOp == \E project \in ProjectInputs : UpdateProject(project)

\* a caller writes back a Project as get_projects() returned it:
\* update_project(get_projects()[path])
WriteBack(path) ==
    /\ path \in DOMAIN get_projects(config_data)
    /\ UpdateProject(get_projects(config_data)[path])

WriteBackOp == \E path \in PathInputs : WriteBack(path)

\* a caller takes a Project from get_projects() and mutates it in place
MutateProjectOp ==
    /\ pc = "idle"
    /\ \E path \in DOMAIN get_projects(config_data) : \E mutation \in Mutations :
          /\ mutation = "append_history" =>
                 Len(get_projects(config_data)[path].history.v) < MaxHistory
          /\ config_data' = mutate_project(config_data, path, mutation)
          /\ last' = [Did("mutate", "-", "none") EXCEPT !.name = <<path, mutation>>]
    /\ UNCHANGED <<fs, backup_dir, now, pc, sv, saved, tracked, calls, nfaults, applied, no_backup,
                   signals, signal_handler, main, projects>>

(***************************************************************************)
(* save_config(create_backup), one action for each step that leaves the    *)
(* files in a state a crash would expose.                                  *)
(***************************************************************************)
SameFile(d, e, q) == IF Exists(d, q) THEN Exists(e, q) /\ e[q] = d[q] ELSE ~Exists(e, q)

\* save_config returns (ret "True" or "False") or lets an exception out
\* ("raised"), having failed at the step `failed`
SaveDone(ret, failed) ==
    /\ pc' = "idle"
    /\ sv' = NoSave
    /\ last' = [ Did("save", ret, IF sv.faulted \/ failed # "none" THEN "some" ELSE "none")
                 EXCEPT !.failed = failed, !.cb = sv.cb,
                        !.existed = Exists(sv.pre, ConfigPath),
                        !.same = SameFile(sv.pre, fs', ConfigPath),
                        !.name = sv.bname,
                        !.bret = sv.bret,
                        !.bak = LET backups == SortNames(DOMAIN backup_dir) IN
                                /\ backups # <<>>
                                /\ Exists(sv.pre, ConfigPath)
                                /\ backup_dir[backups[Len(backups)]] = sv.pre[ConfigPath] ]
    /\ saved' = IF ret = "True" THEN [valid |-> TRUE, cfg |-> config_data] ELSE NotSaved

\* the handler is entered
SaveRaise(failed) ==
    /\ pc' = "except"
    /\ sv' = [sv EXCEPT !.faulted = TRUE, !.step = failed]

\* a save_config that gives up when its backup failed
after_backup_strict(bret) == IF bret = "None" THEN "except" ELSE "write"

\* line 72: create_backup's result is dropped, and save_config goes on to
\* write the temporary file whatever it was
after_backup(bret) == "write"

\* lines 70-72: the call, and the backup it asks for
SaveBegin ==
    /\ pc = "idle"
    /\ \E cb \in BOOLEAN :
          IF cb
          THEN \E fault \in BackupFaults(backup_dir, fs, now) :
                  /\ Faulty(fault)
                  /\ \E b \in {create_backup(backup_dir, fs, now, fault)} :
                     /\ backup_dir' = b.dir
                     /\ tracked' = Retrack(b)
                     /\ sv' = [ NoSave EXCEPT !.active = TRUE, !.cb = TRUE,
                                !.pre = fs, !.img = Serialize(config_data),
                                !.faulted = (fault # "none"), !.bret = b.ret,
                                !.bname = b.name ]
                     /\ pc' = after_backup(b.ret)
          ELSE /\ backup_dir' = backup_dir
               /\ pc' = "write"
               /\ nfaults' = nfaults
               /\ tracked' = tracked
               /\ sv' = [ NoSave EXCEPT !.active = TRUE, !.pre = fs,
                          !.img = Serialize(config_data) ]
    /\ saved' = NotSaved
    /\ last' = Did("save", "-", "none")
    /\ UNCHANGED <<config_data, fs, now, calls, applied, no_backup,
                   signals, signal_handler, main, projects>>

\* a save_config that spares the file of a store that holds nothing: it
\* writes back what the file holds
dumped_unless_empty(config, files) ==
    IF config = EmptyDict /\ Exists(files, ConfigPath) /\ json_load(files[ConfigPath]).ok
    THEN json_load(files[ConfigPath]).val
    ELSE config

\* line 76, json.dump(self.config_data, f, indent=2): what save_config
\* writes is the configuration in memory, whatever the store has loaded
\* and whatever the configuration file holds
dumped(config, files) == config

\* lines 75-77: open the temporary file and json.dump into it
SaveWrite ==
    /\ pc = "write"
    /\ \E fault \in {"none", "open", "dump"} :
          /\ FaultyStep(fault)
          /\ CASE fault = "none" ->
                    /\ fs' = PutFile(fs, TempPath, Serialize(dumped(config_data, fs)))
                    /\ pc' = "validate"
                    /\ sv' = sv
               [] fault = "open" ->
                    /\ fs' = fs
                    /\ SaveRaise("write")
               [] fault = "dump" ->
                    /\ fs' = PutFile(fs, TempPath,
                                     Partial(Serialize(dumped(config_data, fs))))
                    /\ SaveRaise("write")
    /\ UNCHANGED <<config_data, backup_dir, now, last, saved, tracked, calls, applied, no_backup,
                   signals, signal_handler, main, projects>>

\* lines 80-81: read the temporary file back
SaveValidate ==
    /\ pc = "validate"
    /\ \E fault \in {"none", "read"} :
          /\ FaultyStep(fault)
          /\ IF fault = "none" /\ json_load(fs[TempPath]).ok
             THEN pc' = "move" /\ sv' = sv
             ELSE SaveRaise("validate")
    /\ UNCHANGED <<config_data, fs, backup_dir, now, last, saved, tracked, calls, applied, no_backup,
                   signals, signal_handler, main, projects>>

\* line 84, shutil.move: os.rename puts the temporary file in place
SaveMoveRename ==
    /\ pc = "move"
    /\ fs' = DelFile(PutFile(fs, ConfigPath, fs[TempPath]), TempPath)
    /\ SaveDone("True", "none")
    /\ UNCHANGED <<config_data, backup_dir, now, tracked, calls, nfaults, applied, no_backup,
                   signals, signal_handler, main, projects>>

\* line 84, shutil.move: os.rename raises OSError (on Windows whenever the
\* destination exists), so shutil.move copies instead: copy2 opens the
\* configuration file for writing, which empties it
SaveMoveCopyOpen ==
    /\ pc = "move"
    /\ Exists(fs, ConfigPath)
    /\ fs' = PutFile(fs, ConfigPath, <<>>)
    /\ pc' = "copy"
    /\ UNCHANGED <<config_data, backup_dir, now, sv, last, saved, tracked, calls, nfaults, applied, no_backup,
                   signals, signal_handler, main, projects>>

\* shutil.move's copy: copy2 writes the text, then the temporary file is unlinked
SaveMoveCopy ==
    /\ pc = "copy"
    /\ \E fault \in {"none", "copy"} :
          /\ FaultyStep(fault)
          /\ IF fault = "none"
             THEN /\ fs' = DelFile(PutFile(fs, ConfigPath, fs[TempPath]), TempPath)
                  /\ SaveDone("True", "none")
             ELSE /\ fs' = PutFile(fs, ConfigPath, Partial(fs[TempPath]))
                  /\ SaveRaise("move")
                  /\ UNCHANGED <<last, saved>>
    /\ UNCHANGED <<config_data, backup_dir, now, tracked, calls, applied, no_backup,
                   signals, signal_handler, main, projects>>

\* lines 89-93: the handler unlinks the temporary file and returns False;
\* an unlink that raises leaves save_config as an exception
SaveExcept ==
    /\ pc = "except"
    /\ \E fault \in {"none", "unlink"} :
          /\ fault = "unlink" => Exists(fs, TempPath)
          /\ FaultyStep(fault)
          /\ IF fault = "none"
             THEN fs' = DelFile(fs, TempPath) /\ SaveDone("False", sv.step)
             ELSE fs' = fs /\ SaveDone("raised", sv.step)
    /\ UNCHANGED <<config_data, backup_dir, now, tracked, calls, applied, no_backup,
                   signals, signal_handler, main, projects>>

(***************************************************************************)
(* create_backup, _clean_old_backups and restore_from_backup, called by    *)
(* the user interface.                                                     *)
(***************************************************************************)
CreateBackupOp ==
    /\ pc = "idle"
    /\ calls.empty => calls.k < MaxCalls
    /\ \E fault \in BackupFaults(backup_dir, fs, now) :
          /\ Faulty(fault)
          /\ \E b \in {create_backup(backup_dir, fs, now, fault)} :
             /\ backup_dir' = b.dir
             /\ last' = [Did("create_backup", b.ret, fault) EXCEPT !.name = b.name]
             /\ calls' = IF calls.empty
                         THEN [calls EXCEPT !.k = @ + 1,
                                 !.made = IF b.ret = "Path" THEN @ \cup {now} ELSE @]
                         ELSE calls
             /\ \/ tracked' = Retrack(b)
                \/ /\ ~calls.on
                   /\ ~tracked.on
                   /\ b.ret = "Path"
                   /\ tracked' =
                        [ on |-> TRUE, name |-> b.name,
                          projects |-> get_projects(config_data),
                          sync |-> LET r == json_load(fs[ConfigPath])
                                   IN r.ok /\ r.val = config_data,
                          intact |-> TRUE ]
    /\ UNCHANGED <<config_data, fs, now, pc, sv, saved, applied, no_backup,
                   signals, signal_handler, main, projects>>

\* the n backups of a directory with the latest names (all, if it has fewer)
Newest(dir, n) ==
    LET backups == SortNames(DOMAIN dir)
        names == {backups[i] : i \in Max(1, Len(backups) - n + 1)..Len(backups)}
    IN [q \in names |-> dir[q]]

\* _clean_old_backups(keep_count), called on its own
CleanOldBackupsOp ==
    /\ pc = "idle"
    /\ \E keep_count \in 0..MaxKeep :
          \E r \in {clean_old_backups(backup_dir, keep_count, FALSE)} :
          /\ backup_dir' = r.dir
          /\ last' = [ Did("clean", "None", "none") EXCEPT
                       !.n = keep_count,
                       !.m = Cardinality(DOMAIN backup_dir),
                       !.newest = r.dir = Newest(backup_dir, keep_count),
                       !.kept = r.dir = backup_dir ]
    /\ calls' = [NoCalls EXCEPT !.on = calls.on]
    /\ UNCHANGED <<config_data, fs, now, pc, sv, saved, tracked, nfaults, applied, no_backup,
                   signals, signal_handler, main, projects>>

\* the paths the user asks to restore: one for each instant of the clock,
\* whether a backup was made then or not
RestoreInputs == {BackupName(t) : t \in StartTime..(StartTime + MaxTicks)}

\* restore_from_backup(backup_path), for the paths of a set
Restore(paths) ==
    /\ pc = "idle"
    /\ \E backup_path \in paths : \E fault \in {"none", "copy", "read"} :
          /\ fault # "none" => Exists(backup_dir, backup_path)
          /\ Faulty(fault)
          /\ \E r \in {restore_from_backup(config_data, fs, backup_dir, backup_path,
                                          fault)} :
             /\ config_data' = r.config
             /\ fs' = r.files
             /\ backup_dir' = r.dir
             /\ last' = [ Did("restore", r.ret, fault) EXCEPT !.name = backup_path,
                          !.same = SameFile(fs, r.files, ConfigPath) ]
             /\ saved' = IF SameFile(fs, r.files, ConfigPath) THEN saved ELSE NotSaved
    /\ UNCHANGED <<now, pc, sv, tracked, calls, applied, no_backup,
                   signals, signal_handler, main, projects>>

RestoreOp == Restore(RestoreInputs)

\* backup_management (ui.py), "Restore from backup": the user picks a
\* number of the list get_backups() gave and confirms; the handler calls
\* restore_from_backup on that path and nothing else.  The screen offers the
\* action only when the list is not empty.
UiRestoreOp ==
    /\ backup_dir # NoFiles
    /\ Restore(Range(get_backups(backup_dir)))

\* backup_management (ui.py), "Delete old backups", the user answering
\* keep_count and confirming
DeleteOldBackupsOp ==
    /\ pc = "idle"
    /\ backup_dir # NoFiles
    /\ \E keep_count \in 0..MaxKeep :
          \E r \in {delete_old_backups(backup_dir, keep_count)} :
          /\ backup_dir' = r.dir
          /\ last' = [ Did("ui.backup_management.delete", "None", "none") EXCEPT
                       !.n = keep_count,
                       !.m = Cardinality(DOMAIN backup_dir),
                       !.newest = r.dir = Newest(backup_dir, keep_count),
                       !.kept = r.dir = backup_dir ]
    /\ calls' = [NoCalls EXCEPT !.on = calls.on]
    /\ UNCHANGED <<config_data, fs, now, pc, sv, saved, tracked, nfaults, applied, no_backup,
                   signals, signal_handler, main, projects>>

(***************************************************************************)
(* The command-line program and the handlers of the user interfaces.       *)
(***************************************************************************)
\* cli.main: the store is constructed and loaded; the program exits when
\* the load fails, and runs the user interface otherwise.  The no_backup
\* argument is not read.
MainOp ==
    /\ pc = "idle"
    /\ last.op = "new"
    /\ \E raises \in BOOLEAN : \E r \in {load_config(config_data, fs, "none")} :
          LET outcome == IF raises THEN "raised" ELSE r.ret
              m == main_load(outcome)
              handler == SignalHandler_init(signals)
              entered == SignalHandler_enter(signals)
          IN /\ config_data' = IF raises THEN config_data ELSE r.config
             /\ pc' = IF m.tui THEN "idle" ELSE "exit"
             /\ last' = Did("main", outcome, "none")
             /\ main' = [ NotStarted EXCEPT
                          !.state = IF m.tui THEN "tui" ELSE "exited",
                          !.load = outcome, !.tui = m.tui, !.status = m.status,
                          !.message = m.message ]
             /\ signal_handler' =
                   [ state |-> IF m.tui THEN "entered" ELSE "exited",
                     original_sigint |-> handler.original_sigint,
                     exit_requested |-> handler.exit_requested,
                     before |-> signals ]
             /\ signals' = IF m.tui THEN entered ELSE SignalHandler_exit(entered, handler)
             /\ projects' = IF m.tui THEN get_projects(r.config) ELSE projects
    /\ UNCHANGED <<fs, backup_dir, now, sv, saved, tracked, calls, nfaults, applied, no_backup>>

\* BackupManagementScreen._do_restore (tui.py) on a backup of the list the
\* screen shows: restore_from_backup, then the screen is popped.  The
\* project list under it is not refreshed.
TuiRestoreOp ==
    /\ pc = "idle"
    /\ main.state = "tui"
    /\ main.interface \in {"-", "tui"}
    /\ \E backup_path \in Range(get_backups(backup_dir)) :
       \E r \in {restore_from_backup(config_data, fs, backup_dir, backup_path, "none")} :
          /\ config_data' = r.config
          /\ fs' = r.files
          /\ backup_dir' = r.dir
          /\ last' = [ Did("tui._do_restore", r.ret, "none") EXCEPT
                       !.name = backup_path,
                       !.same = SameFile(fs, r.files, ConfigPath) ]
          /\ saved' = IF SameFile(fs, r.files, ConfigPath) THEN saved ELSE NotSaved
          /\ main' = [main EXCEPT !.restored = @ \/ r.ret = "True", !.interface = "tui"]
    /\ UNCHANGED <<now, pc, sv, tracked, calls, nfaults, applied, no_backup, signals,
                   signal_handler, projects>>

\* ProjectListScreen.action_refresh: the user asks for refresh_projects()
TuiRefreshOp ==
    /\ pc = "idle"
    /\ main.state = "tui"
    /\ main.interface \in {"-", "tui"}
    /\ projects' = get_projects(config_data)
    /\ last' = Did("tui.action_refresh", "None", "none")
    /\ main' = [main EXCEPT !.interface = "tui"]
    /\ UNCHANGED <<config_data, fs, backup_dir, now, pc, sv, saved, tracked, calls, nfaults,
                   applied, no_backup, signals, signal_handler>>

\* run_tui ends and main leaves the with block
MainEnd(how) ==
    /\ pc = "idle"
    /\ main.state = "tui"
    /\ how \in {"SIGINT", "SIGTERM"} =>
           signals[how] = (IF how = "SIGINT" THEN "_handle_sigint" ELSE "_handle_sigterm")
    /\ pc' = "exit"
    /\ main' = [main EXCEPT !.state = "exited", !.status = main_end(how).status,
                            !.message = main_end(how).message]
    /\ signal_handler' = [ signal_handler EXCEPT !.state = "exited",
                             !.exit_requested = @ \/ how \in {"SIGINT", "SIGTERM"} ]
    /\ signals' = SignalHandler_exit(signals, signal_handler)
    /\ last' = Did("main_end", how, "none")
    /\ UNCHANGED <<config_data, fs, backup_dir, now, sv, saved, tracked, calls, nfaults,
                   applied, no_backup, projects>>

MainEndOp ==
    \E how \in {"return", "Exception", "KeyboardInterrupt", "SIGINT", "SIGTERM"} :
        MainEnd(how)

\* the handler h runs for a project and the user's inputs, on a file
\* system that may fail in the backup or in the save
UiOperationOn(h, counts) ==
    /\ pc = "idle"
    /\ last.op # "new"
    /\ main.interface \in {"-", Interface(h)}
    /\ main' = [main EXCEPT !.interface = Interface(h)]
    /\ \E path \in DOMAIN Held(h, config_data, projects) :
       \E keep_count \in counts :
       \E flag \in IF h = "ui.manage_mcp_servers.toggle" THEN BOOLEAN ELSE {TRUE} :
       \E bfault \in BackupFaults(backup_dir, fs, now) :
       \E sfault \in IF bfault = "none" THEN {"none", "dump"} ELSE {"none"} :
          /\ Offered(h, Held(h, config_data, projects)[path], keep_count)
          /\ Faulty(IF sfault = "none" THEN bfault ELSE sfault)
          /\ \E r \in {ui_operation(config_data, fs, backup_dir, now, h, path,
                                     Held(h, config_data, projects)[path],
                                     keep_count, flag, bfault, sfault)} :
             /\ config_data' = r.config
             /\ fs' = r.files
             /\ backup_dir' = r.dir
             /\ last' = [ Did(h, r.ret, IF sfault = "none" THEN bfault ELSE sfault)
                          EXCEPT !.bret = r.bret, !.name = r.bname,
                                 !.existed = Exists(fs, ConfigPath),
                                 !.same = SameFile(fs, r.files, ConfigPath),
                                 !.keep_count =
                                     IF Change(h) = "keep_recent" THEN keep_count ELSE 0,
                                 !.reported =
                                     IF h = "ui.clear_history.keep_recent"
                                     THEN total_to_remove(get_projects(config_data),
                                                          keep_count)
                                     ELSE 0 ]
             /\ saved' = IF r.ret = "True" THEN [valid |-> TRUE, cfg |-> r.config]
                         ELSE IF SameFile(fs, r.files, ConfigPath) THEN saved
                         ELSE NotSaved
             /\ projects' =
                   IF h \notin TuiHandlers THEN projects
                   ELSE IF Refreshes(h) /\ r.ret = "True" THEN get_projects(r.config)
                   ELSE IF Change(h) = "remove" THEN projects
                   ELSE [ projects EXCEPT
                          ![path] = Changed(h, projects[path], keep_count, flag) ]
    /\ UNCHANGED <<now, pc, sv, tracked, calls, applied, no_backup, signals,
                   signal_handler>>

\* the handlers as SpecUI runs them: with a keep count that trims
UiOperation(h) == UiOperationOn(h, 1..MaxKeepRecent)

\* "keep only recent entries" with every keep count the handler takes
KeepRecentOp(h) == UiOperationOn(h, KeepCounts(h))

UiOp == \E h \in Handlers : UiOperation(h)

\* the handlers of tui.py
TuiOp == \E h \in TuiHandlers : UiOperation(h)

(***************************************************************************)
(* The store: loads, edits and saves in any order, on a file system that   *)
(* may fail and a process that may end at any step.                        *)
(***************************************************************************)
Next ==
    \/ Restart
    \/ LoadConfigOp
    \/ RemoveProjectOp
    \/ UpdateProjectOp
    \/ SaveBegin
    \/ SaveWrite
    \/ SaveValidate
    \/ SaveMoveRename
    \/ SaveMoveCopyOpen
    \/ SaveMoveCopy
    \/ SaveExcept

Spec == Init /\ [][Next]_vars

(***************************************************************************)
(* Backup and restore: one session on a file system that does not fail,    *)
(* started on a configuration file Claude Code wrote.  The backup          *)
(* directory is empty or holds backups with later names.                   *)
(***************************************************************************)
InitRestore ==
    \E dir \in {NoFiles, FutureDir} :
        Construct(PutFile(NoFiles, ConfigPath, Serialize(Config0)), dir, MaxFaults, FALSE)

NextRestore ==
    \/ Tick
    \/ LoadConfigOp
    \/ UpdateProjectOp
    \/ SaveBegin
    \/ SaveWrite
    \/ SaveValidate
    \/ SaveMoveRename
    \/ CreateBackupOp
    \/ RestoreOp

SpecRestore == InitRestore /\ [][NextRestore]_vars

(***************************************************************************)
(* Backup rotation: create_backup and _clean_old_backups on a file system  *)
(* that does not fail and a backup directory that is empty, holds ten      *)
(* backups of the older name format, or holds ten backups with later names. *)
(***************************************************************************)
InitBackup ==
    \E files \in {NoFiles, PutFile(NoFiles, ConfigPath, Serialize(Config0))} :
    \E dir \in {NoFiles, OldDir, FutureDir} :
        Construct(files, dir, MaxFaults, TRUE)

\* the clock advances, over the longer run of instants rotation needs
TickBackup ==
    /\ ClockRead
    /\ now < StartTime + MaxBackupTicks
    /\ now' = now + 1
    /\ UNCHANGED <<config_data, fs, backup_dir, pc, sv, last, saved, tracked, calls, nfaults, applied, no_backup,
                   signals, signal_handler, main, projects>>

NextBackup ==
    \/ TickBackup
    \/ CreateBackupOp
    \/ CleanOldBackupsOp

SpecBackup == InitBackup /\ [][NextBackup]_vars

(***************************************************************************)
(* Recovery: backups, restores and loads on a file system that may fail    *)
(* once, started on a configuration file Claude Code wrote or on one that  *)
(* holds a JSON array.  The backup directory holds ten backups of the      *)
(* older name format, or two backups with later names.  The user restores  *)
(* a path the clock may have named or the first path get_backups() lists.  *)
(***************************************************************************)
InitRecover ==
    \E text \in {Serialize(Config0), Serialize(EmptyList)} :
    \E dir \in {OldDir, FutureFew} :
        Construct(PutFile(NoFiles, ConfigPath, text), dir, 0, TRUE)

\* the paths the user asks to restore in a state: those of RestoreInputs and
\* the first of the list get_backups() returns
ListedInputs(dir) ==
    RestoreInputs \cup {get_backups(dir)[i] : i \in 1..Min(1, Cardinality(DOMAIN dir))}

RestoreListedOp == Restore(ListedInputs(backup_dir))

NextRecover ==
    \/ Tick
    \/ LoadConfigOp
    \/ CreateBackupOp
    \/ RestoreListedOp

SpecRecover == InitRecover /\ [][NextRecover]_vars

(***************************************************************************)
(* Editing: a caller that loads, takes projects from get_projects(),       *)
(* mutates them, updates and removes, on a file system that does not fail. *)
(***************************************************************************)
InitEdit ==
    \E files \in {NoFiles} \cup {PutFile(NoFiles, ConfigPath, Serialize(c)) :
                                    c \in {Config0, ConfigMeta, ConfigExtra, EmptyDict}} :
        Construct(files, NoFiles, MaxFaults, TRUE)

NextEdit ==
    \/ LoadConfigOp
    \/ RemoveProjectOp
    \/ UpdateProjectOp
    \/ WriteBackOp
    \/ MutateProjectOp

SpecEdit == InitEdit /\ [][NextEdit]_vars

(***************************************************************************)
(* Persistence: loads, updates, removals and saves in any order on a file  *)
(* system that does not fail, started on a configuration file that holds   *)
(* metadata beside its projects.                                           *)
(***************************************************************************)
InitPersist ==
    Construct(PutFile(NoFiles, ConfigPath, Serialize(ConfigMeta)), NoFiles, MaxFaults, FALSE)

NextPersist ==
    \/ LoadConfigOp
    \/ RemoveProjectOp
    \/ UpdateProjectOp
    \/ SaveBegin
    \/ SaveWrite
    \/ SaveValidate
    \/ SaveMoveRename
    \/ SaveMoveCopyOpen
    \/ SaveMoveCopy

SpecPersist == InitPersist /\ [][NextPersist]_vars

(***************************************************************************)
(* Project values: to_dict on a Project, from_dict on a raw map or on what *)
(* to_dict returned, history_count on what from_dict returned.  The store  *)
(* is constructed and left alone.                                          *)
(***************************************************************************)
ProjectArg(p) == [kind |-> "Project", p |-> p]
RawArg(path, data) == [kind |-> "raw", path |-> path, data |-> data]

InitProject ==
    /\ config_data = EmptyDict
    /\ fs = NoFiles
    /\ backup_dir = NoFiles
    /\ now = StartTime
    /\ pc = "idle"
    /\ sv = NoSave
    /\ last = NoOp
    /\ saved = NotSaved
    /\ tracked = NoTrack
    /\ calls = NoCalls
    /\ nfaults = MaxFaults
    /\ no_backup = FALSE
    /\ signals = PythonSignals
    /\ signal_handler = NoSignalHandler
    /\ main = NotStarted
    /\ projects = EmptyMap
    /\ \E arg \in {ProjectArg(p) : p \in ProjectValues}
                  \cup {RawArg("/p1", data) : data \in RawMissing \cup RawWrong} :
          applied = [NotApplied EXCEPT !.arg = arg]

\* p.to_dict()
ToDictOp ==
    /\ applied.f = "none"
    /\ applied.arg.kind = "Project"
    /\ applied' = [applied EXCEPT !.f = "to_dict", !.out = to_dict(applied.arg.p)]
    /\ UNCHANGED <<config_data, fs, backup_dir, now, pc, sv, last, saved, tracked, calls,
                   nfaults, no_backup,
                   signals, signal_handler, main, projects>>

\* Project.from_dict(path, data), on a raw map or on p.to_dict() with p.path
FromDictOp ==
    /\ \/ /\ applied.f = "none"
          /\ applied.arg.kind = "raw"
          /\ applied' = [applied EXCEPT !.f = "from_dict",
                            !.out = from_dict(applied.arg.path, applied.arg.data)]
       \/ /\ applied.f = "to_dict"
          /\ applied' = [applied EXCEPT !.f = "from_dict",
                            !.out = from_dict(applied.arg.p.path, applied.out)]
    /\ UNCHANGED <<config_data, fs, backup_dir, now, pc, sv, last, saved, tracked, calls,
                   nfaults, no_backup,
                   signals, signal_handler, main, projects>>

\* project.history_count, on what from_dict returned: a number, or TypeError
HistoryCountOp ==
    /\ applied.f = "from_dict"
    /\ applied' = [applied EXCEPT !.f = "history_count",
                      !.out = IF HasLen(applied.out.history)
                              THEN [raised |-> FALSE, n |-> history_count(applied.out)]
                              ELSE [raised |-> TRUE, n |-> 0]]
    /\ UNCHANGED <<config_data, fs, backup_dir, now, pc, sv, last, saved, tracked, calls,
                   nfaults, no_backup,
                   signals, signal_handler, main, projects>>

NextProject ==
    \/ ToDictOp
    \/ FromDictOp
    \/ HistoryCountOp

SpecProject == InitProject /\ [][NextProject]_vars

(***************************************************************************)
(* The program: started with or without --no-backup on a configuration     *)
(* file Claude Code wrote or on one that holds a JSON array, with an empty *)
(* backup directory; then the handlers of the user interfaces in any       *)
(* order, within one reading of the clock, on a file system that may fail  *)
(* once.                                                                   *)
(***************************************************************************)
InitUI ==
    /\ config_data = EmptyDict
    /\ \E text \in {Serialize(Config0), Serialize(EmptyList)} :
          fs = PutFile(NoFiles, ConfigPath, text)
    /\ backup_dir = NoFiles
    /\ now = StartTime
    /\ pc = "idle"
    /\ sv = NoSave
    /\ last = NoOp
    /\ saved = NotSaved
    /\ tracked = NoTrack
    /\ calls = NoCalls
    /\ nfaults = 0
    /\ applied = NotApplied
    /\ no_backup \in BOOLEAN
    /\ signals = PythonSignals
    /\ signal_handler = NoSignalHandler
    /\ main = NotStarted
    /\ projects = EmptyMap

NextUI ==
    \/ MainOp
    \/ UiOp

SpecUI == InitUI /\ [][NextUI]_vars

(***************************************************************************)
(* Backup management in ui.py: one session on a file system that does not  *)
(* fail, started on a configuration file Claude Code wrote.  The backup     *)
(* directory is empty or holds two backups of the older name format.  The   *)
(* user creates backups, restores one of the list and deletes old ones.     *)
(***************************************************************************)
InitManage ==
    \E dir \in {NoFiles, OldFew} :
        Construct(PutFile(NoFiles, ConfigPath, Serialize(Config0)), dir, MaxFaults, FALSE)

NextManage ==
    \/ Tick
    \/ LoadConfigOp
    \/ CreateBackupOp
    \/ UiRestoreOp
    \/ DeleteOldBackupsOp

SpecManage == InitManage /\ [][NextManage]_vars

(***************************************************************************)
(* Trimming histories: the program started on a configuration file Claude  *)
(* Code wrote, with or without top-level metadata, and a backup directory   *)
(* that is empty or holds two older backups; then "keep only recent         *)
(* entries" of tui.py and ui.py with every keep count they take, on a file  *)
(* system that may fail once.                                               *)
(***************************************************************************)
InitKeep ==
    \E config \in {Config0, ConfigMeta} : \E dir \in {NoFiles, OldFew} :
        Construct(PutFile(NoFiles, ConfigPath, Serialize(config)), dir, 0, FALSE)

NextKeep ==
    \/ MainOp
    \/ KeepRecentOp("tui._do_keep_recent")
    \/ KeepRecentOp("ui.clear_history.keep_recent")

SpecKeep == InitKeep /\ [][NextKeep]_vars

(***************************************************************************)
(* The command-line program: main started on any configuration file, in a  *)
(* process whose handlers for SIGINT and SIGTERM are Python's, the          *)
(* system's, or set to ignore or to a function of the caller; the           *)
(* construction or the load may raise; run_tui ends by returning, by        *)
(* raising or by a signal.                                                  *)
(***************************************************************************)
\* the handlers a process may hold when main is called
SignalInputs ==
    [ SIGINT : {"default_int_handler", "SIG_DFL", "SIG_IGN"},
      SIGTERM : {"SIG_DFL", "SIG_IGN", "callers_handler"} ]

InitMain ==
    /\ config_data = EmptyDict
    /\ fs \in InitFiles
    /\ backup_dir = NoFiles
    /\ now = StartTime
    /\ pc = "idle"
    /\ sv = NoSave
    /\ last = NoOp
    /\ saved = NotSaved
    /\ tracked = NoTrack
    /\ calls = NoCalls
    /\ nfaults = MaxFaults
    /\ applied = NotApplied
    /\ no_backup = FALSE
    /\ signals \in SignalInputs
    /\ signal_handler = NoSignalHandler
    /\ main = NotStarted
    /\ projects = EmptyMap

NextMain ==
    \/ MainOp
    \/ MainEndOp

SpecMain == InitMain /\ [][NextMain]_vars

(***************************************************************************)
(* The TUI: main on a configuration file Claude Code wrote and an empty    *)
(* backup directory; then the handlers of tui.py, restores from the backup  *)
(* screen and refreshes of the project list in any order, within one        *)
(* reading of the clock, on a file system that does not fail.               *)
(***************************************************************************)
InitTui ==
    Construct(PutFile(NoFiles, ConfigPath, Serialize(Config0)), NoFiles, MaxFaults, FALSE)

NextTui ==
    \/ MainOp
    \/ TuiOp
    \/ TuiRestoreOp
    \/ TuiRefreshOp

SpecTui == InitTui /\ [][NextTui]_vars

(***************************************************************************)
(* The store and its backups together: loads, edits, saves, backups and    *)
(* restores of listed backups in any order, in one process that runs on,   *)
(* on a file system that may fail once.  The configuration file is absent  *)
(* at first, or holds a JSON object; the backup directory is empty.        *)
(***************************************************************************)
InitValid ==
    \E files \in {NoFiles, PutFile(NoFiles, ConfigPath, Serialize(Config0))} :
        Construct(files, NoFiles, 0, FALSE)

\* restore_from_backup on any path of the list get_backups() returns
RestoreAnyListedOp == Restore(Range(get_backups(backup_dir)))

NextValid ==
    \/ Tick
    \/ LoadConfigOp
    \/ RemoveProject("/p1")
    \/ UpdateProject(ProjectA)
    \/ SaveBegin
    \/ SaveWrite
    \/ SaveValidate
    \/ SaveMoveRename
    \/ SaveMoveCopyOpen
    \/ SaveMoveCopy
    \/ SaveExcept
    \/ CreateBackupOp
    \/ RestoreAnyListedOp

SpecValid == InitValid /\ [][NextValid]_vars

(***************************************************************************)
(* Properties of save_config and load_config, checked on Spec.             *)
(***************************************************************************)
\* the configuration file parses as a JSON object
FileIsConfig(files) ==
    /\ Exists(files, ConfigPath)
    /\ json_load(files[ConfigPath]).ok
    /\ IsDict(json_load(files[ConfigPath]).val)

\* C1: at every step of save_config, and so whenever the process ends
\* during it, the configuration file is absent, holds what it held before
\* the call, or holds the whole serialization of the configuration in
\* memory.
SaveIsAtomic ==
    sv.active =>
        \/ ~Exists(fs, ConfigPath)
        \/ SameFile(sv.pre, fs, ConfigPath)
        \/ fs[ConfigPath] = sv.img

\* C2: a save_config that failed while writing or validating the temporary
\* file returned False, left no temporary file and left the configuration
\* file byte for byte as it was.
FailedSaveCleansUp ==
    (last.op = "save" /\ last.ret # "-" /\ last.failed \in {"write", "validate"}) =>
        /\ last.ret = "False"
        /\ ~Exists(fs, TempPath)
        /\ last.same

\* C3: a load_config that read the file a successful save_config wrote,
\* by the same store or a new one, returned True and left in memory a
\* configuration equal to the one that was saved.
SaveLoadRoundTrip ==
    (last.op = "load" /\ last.fault = "none" /\ saved.valid) =>
        /\ last.ret = "True"
        /\ config_data = saved.cfg

\* a load gave back a saved configuration that update_project had put two
\* projects into, next to the keys Claude Code wrote
SaveLoadRoundTripSeen ==
    /\ last.op = "load"
    /\ last.fault = "none"
    /\ saved.valid
    /\ config_data = saved.cfg
    /\ "numStartups" \in DOMAIN config_data.v
    /\ get_projects(config_data) = [path \in PathInputs |->
          IF path = "/p1" THEN ProjectA ELSE ProjectB]

\* C4: a load_config of a file that is missing, is not JSON or is not a
\* JSON object returned False and left get_projects() without entries,
\* whatever was in memory before.
FailedLoadEmptiesMemory ==
    (last.op = "load" /\ ~FileIsConfig(fs)) =>
        /\ last.ret = "False"
        /\ DOMAIN get_projects(config_data) = {}

\* C5: load_config returned True exactly when the file exists, is read,
\* parses as JSON and holds an object; and the configuration in memory is
\* a mapping in every state.
LoadTrueIffObject ==
    /\ IsDict(config_data)
    /\ last.op = "load" => (last.ret = "True" <=> (last.fault = "none" /\ FileIsConfig(fs)))

\* a load of a file that parses as JSON and holds something other than an
\* object returned False, and memory is the empty mapping
LoadRejectedNonObject ==
    /\ last.op = "load"
    /\ last.fault = "none"
    /\ last.ret = "False"
    /\ Exists(fs, ConfigPath)
    /\ json_load(fs[ConfigPath]).ok
    /\ ~IsDict(json_load(fs[ConfigPath]).val)
    /\ config_data = EmptyDict

\* C16: whatever file-system or parse failure a call meets, at any step
\* and also while save_config removes its temporary file, the call returns
\* False or None; no exception leaves it.
NoExceptionEscapes == last.ret # "raised"

\* C17: a save_config(create_backup=True) whose create_backup returned
\* None (no configuration file yet, or a copy that failed) went on: it
\* returned True with the configuration file holding the configuration in
\* memory, unless a later step of the save itself (writing or validating
\* the temporary file, moving it) raised.
SaveSurvivesFailedBackup ==
    (last.op = "save" /\ last.ret # "-" /\ last.cb /\ last.bret = "None") =>
        \/ /\ last.ret = "True"
           /\ last.failed = "none"
           /\ Exists(fs, ConfigPath)
           /\ fs[ConfigPath] = Serialize(config_data)
        \/ last.failed \in {"write", "validate", "move"}

\* a save with a backup asked for, made where no configuration file was,
\* returned True and wrote the projects in memory
SavedWithoutBackupSeen ==
    /\ last.op = "save"
    /\ last.cb
    /\ last.bret = "None"
    /\ ~last.existed
    /\ last.ret = "True"
    /\ DOMAIN get_projects(config_data) # {}
    /\ fs[ConfigPath] = Serialize(config_data)

(***************************************************************************)
\* restore_from_backup was called on the tracked backup, which is still in
\* the backup directory
RestoredTracked ==
    /\ last.op = "restore"
    /\ tracked.on
    /\ last.name = tracked.name
    /\ Exists(backup_dir, tracked.name)

\* restore_from_backup returned True, the configuration file holds the
\* bytes of the backup, and get_projects() is what it was when the backup
\* was made
RestoredAll ==
    /\ last.ret = "True"
    /\ Exists(fs, ConfigPath)
    /\ fs[ConfigPath] = backup_dir[tracked.name]
    /\ get_projects(config_data) = tracked.projects

SaveBackupHoldsOldContent ==
    (last.op = "save" /\ last.ret = "True" /\ last.cb /\ last.existed) => last.bak

(***************************************************************************)
(* Properties of backup rotation, checked on SpecBackup.                   *)
(***************************************************************************)
\* C7: _clean_old_backups(keep_count) on more than keep_count backups left
\* exactly the keep_count with the latest names; on keep_count backups or
\* fewer it deleted nothing.
CleanKeepsNewest ==
    last.op = "clean" => IF last.m > last.n THEN last.newest ELSE last.kept

\* the instants of the n latest create_backup calls that returned a path
LatestMade(n) ==
    {t \in calls.made : Cardinality({u \in calls.made : u > t}) < n}

BackupOfNothingChangesNothing ==
    [][(~Exists(fs, ConfigPath) /\ CreateBackupOp) =>
          /\ last'.ret = "None"
          /\ backup_dir' = backup_dir]_vars

\* create_backup returned None where no configuration file is, the backup
\* directory holding its ten older backups
BackupOfNothingSeen ==
    /\ last.op = "create_backup"
    /\ last.ret = "None"
    /\ ~Exists(fs, ConfigPath)
    /\ backup_dir = OldDir

\* C9: when create_backup returned a path, a file named claude_<timestamp>
\* is at that path and holds the bytes of the configuration file, whatever
\* else the backup directory holds.
ReturnedBackupExists ==
    (last.op = "create_backup" /\ last.ret = "Path") =>
        /\ \E t \in StartTime..(StartTime + MaxBackupTicks) : last.name = BackupName(t)
        /\ Exists(backup_dir, last.name)
        /\ backup_dir[last.name] = fs[ConfigPath]

(***************************************************************************)
(* Properties of recovery, checked on SpecRecover.                         *)
(***************************************************************************)
\* C11: no step of any operation changes the content of a backup file that
\* exists before the step and after it: a backup holds the same bytes from
\* its creation until it is deleted.
BackupsNeverChange ==
    [][\A q \in DOMAIN backup_dir :
          Exists(backup_dir', q) => backup_dir'[q] = backup_dir[q]]_vars

(***************************************************************************)
(* Properties of get_projects, checked on SpecEdit.                        *)
(***************************************************************************)
\* C12: a caller's mutation of a Project that get_projects() returned,
\* without a call of update_project, leaves the configuration in memory as
\* it was, so that get_projects() and save_config() do not show it.
MutationLeavesStore == [][MutateProjectOp => config_data' = config_data]_vars

\* the files as they were before the operation under way, or now
FilesBefore == IF sv.active THEN sv.pre ELSE fs

\* C13: an operation that began on a configuration file holding a JSON
\* object leaves it holding a JSON object, and one that returns False or
\* None leaves it byte for byte as it was.
ConfigFileStaysValid ==
    [][(pc' = "idle" /\ FileIsConfig(FilesBefore)) =>
          /\ FileIsConfig(fs')
          /\ last'.ret \in {"False", "None"} => SameFile(FilesBefore, fs', ConfigPath)]_vars

\* C14: restore_from_backup on a path where no file is returns False and
\* leaves the configuration file, the configuration in memory and the
\* backup directory as they were.
RestoreMissingChangesNothing ==
    [][(last'.op = "restore" /\ RestoreListedOp /\ ~Exists(backup_dir, last'.name)) =>
          /\ last'.ret = "False"
          /\ fs' = fs
          /\ config_data' = config_data
          /\ backup_dir' = backup_dir]_vars

\* a restore of a missing path returned False to a store that holds
\* projects in memory and a configuration file on disk
RestoreMissingSeen ==
    /\ last.op = "restore"
    /\ ~Exists(backup_dir, last.name)
    /\ last.ret = "False"
    /\ DOMAIN get_projects(config_data) # {}
    /\ FileIsConfig(fs)

\* C15: restore_from_backup, whether it returns True or False, leaves the
\* backup directory with the same files holding the same bytes.
RestoreLeavesBackups ==
    [][(last'.op = "restore" /\ RestoreListedOp) => backup_dir' = backup_dir]_vars

\* a restore replaced the configuration file with a backup and returned
\* True
RestoreReplacedSeen ==
    /\ last.op = "restore"
    /\ last.ret = "True"
    /\ ~last.same
    /\ Exists(backup_dir, last.name)
    /\ fs[ConfigPath] = backup_dir[last.name]

\* C18: a create_backup whose rotation met an unlink that failed skipped
\* that file, deleted the other backups in excess, and returned the path
\* of the backup it made, which is there.
RotationSkipsFailedUnlink ==
    (last.op = "create_backup" /\ last.fault = "unlink") =>
        /\ last.ret = "Path"
        /\ Exists(backup_dir, last.name)
        /\ Cardinality(DOMAIN backup_dir) <= KeepCountDefault + 1

\* the path is one that a create_backup call of this run wrote: the clock
\* has named it
MadeInRun(q) == \E t \in StartTime..now : q = BackupName(t)

\* backup a was created before backup b: a was there when the store
\* started and b was not, or both were made in this run and a at the
\* earlier instant
CreatedBefore(a, b) ==
    \/ ~MadeInRun(a) /\ MadeInRun(b)
    \/ \E t, u \in StartTime..now : t < u /\ a = BackupName(t) /\ b = BackupName(u)

\* C20: get_backups() lists every file of the backup directory, and no
\* backup stands in the list before one that was created after it.
BackupsListedNewestFirst ==
    LET listed == get_backups(backup_dir) IN
    /\ Range(listed) = DOMAIN backup_dir
    /\ \A i, j \in 1..Len(listed) : i < j => ~CreatedBefore(listed[i], listed[j])


(***************************************************************************)
(* Properties of remove_project, update_project and get_stats, checked on  *)
(* SpecEdit.                                                               *)
(***************************************************************************)
\* the raw projects map of a configuration; empty when it has none
RawProjects(config) == DictGet(config, "projects", EmptyDict).v

\* the top-level keys other than projects, with their values
TopLevel(config) == [k \in (DOMAIN config.v) \ {"projects"} |-> config.v[k]]

\* C21: remove_project(path) returns True exactly when path was a key of
\* the projects map in memory; then path is no longer a key, every other
\* entry and every top-level key is what it was, get_projects() and
\* get_stats()["total_projects"] show one entry fewer, and the
\* configuration file and the backup directory are untouched.  When path
\* was not a key it returns False and nothing changes.
RemoveProjectRemovesOne ==
    [][\A path \in PathInputs :
          (last'.op = "remove" /\ RemoveProject(path)) =>
              LET before == RawProjects(config_data)
                  after == RawProjects(config_data')
              IN /\ fs' = fs
                 /\ backup_dir' = backup_dir
                 /\ IF path \in DOMAIN before
                    THEN /\ last'.ret = "True"
                         /\ DOMAIN after = (DOMAIN before) \ {path}
                         /\ \A q \in DOMAIN after : after[q] = before[q]
                         /\ TopLevel(config_data') = TopLevel(config_data)
                         /\ get_projects(config_data') =
                                [q \in (DOMAIN before) \ {path} |->
                                    get_projects(config_data)[q]]
                         /\ get_stats(config_data', fs').total_projects =
                                get_stats(config_data, fs).total_projects - 1
                    ELSE /\ last'.ret = "False"
                         /\ config_data' = config_data]_vars

\* a project was removed and another one is still there
RemovedOneOfTwoSeen ==
    /\ last.op = "remove"
    /\ last.ret = "True"
    /\ Cardinality(DOMAIN RawProjects(config_data)) = 1
    /\ TopLevel(config_data) # EmptyMap

\* C22: update_project(project) returns True whatever the store holds, a
\* configuration without a projects key included; afterwards
\* get_projects()[project.path] is equal to project, every other project
\* entry and every top-level key is what it was, and the configuration
\* file is untouched.
UpdateProjectSetsOne ==
    [][\A project \in ProjectInputs :
          (last'.op = "update" /\ UpdateProject(project)) =>
              LET before == RawProjects(config_data)
                  after == RawProjects(config_data')
              IN /\ last'.ret = "True"
                 /\ "projects" \in DOMAIN config_data'.v
                 /\ DOMAIN after = (DOMAIN before) \cup {project.path}
                 /\ get_projects(config_data')[project.path] = project
                 /\ \A q \in (DOMAIN before) \ {project.path} : after[q] = before[q]
                 /\ TopLevel(config_data') = TopLevel(config_data)
                 /\ fs' = fs]_vars

\* a project was written into a store that holds another one
UpdatedOneOfTwoSeen ==
    /\ last.op = "update"
    /\ last.ret = "True"
    /\ Cardinality(DOMAIN RawProjects(config_data)) = 2
    /\ TopLevel(config_data) # EmptyMap

\* the length of the list or dict an entry of the projects map holds at a
\* key; 0 when the map has no such entry or the entry no such key
RawLen(config, path, key) ==
    IF path \in DOMAIN RawProjects(config) /\ key \in DOMAIN RawProjects(config)[path].v
    THEN len(RawProjects(config)[path].v[key])
    ELSE 0

\* C27: whatever loads, removals and updates were made, get_stats()
\* reports as total_projects the number of keys of the projects map in
\* memory, as total_history_entries the sum of the lengths of their
\* histories, as total_mcp_servers the sum of the sizes of their
\* mcpServers, and as config_size 0 when there is no configuration file;
\* metadata that is missing reads 0 (numStartups) or "N/A", and for an
\* empty configuration every count is 0.
StatsMatchMemory ==
    LET stats == get_stats(config_data, fs) IN
    /\ stats.total_projects = Cardinality(DOMAIN RawProjects(config_data))
    /\ DOMAIN RawProjects(config_data) \subseteq PathInputs
    /\ stats.total_history_entries =
          RawLen(config_data, "/p1", "history") + RawLen(config_data, "/p2", "history")
    /\ stats.total_mcp_servers =
          RawLen(config_data, "/p1", "mcpServers") + RawLen(config_data, "/p2", "mcpServers")
    /\ ~Exists(fs, ConfigPath) => stats.config_size = 0
    /\ Exists(fs, ConfigPath) => stats.config_size > 0
    /\ "numStartups" \notin DOMAIN config_data.v => stats.num_startups = JInt(0)
    /\ "firstStartTime" \notin DOMAIN config_data.v => stats.first_start_time = JStr("N/A")
    /\ "oauthAccount" \notin DOMAIN config_data.v =>
          stats.user_email = JStr("N/A") /\ stats.organization = JStr("N/A")
    /\ config_data = EmptyDict =>
          /\ stats.total_projects = 0
          /\ stats.total_history_entries = 0
          /\ stats.total_mcp_servers = 0

\* statistics of a store that holds two projects with history entries and
\* an MCP server between them, and metadata
StatsOfTwoSeen ==
    /\ Cardinality(DOMAIN RawProjects(config_data)) = 2
    /\ get_stats(config_data, fs).total_history_entries = 3
    /\ get_stats(config_data, fs).total_mcp_servers = 1
    /\ get_stats(config_data, fs).user_email = JStr("test@example.com")
    /\ last.op = "update"

(***************************************************************************)
(* Properties checked on SpecPersist.                                      *)
(***************************************************************************)
\* the top-level keys other than projects of the configuration file
FileTopLevel(files) == TopLevel(json_load(files[ConfigPath]).val)

\* C23: the top-level keys other than projects pass through: a load that
\* succeeds puts those of the file in memory, remove_project and
\* update_project leave those in memory as they are, no step of save_config
\* changes them, and a save_config that succeeds leaves a file that holds
\* them with the same values.
TopLevelPassesThrough ==
    [][/\ (last'.op = "load" /\ last'.ret = "True") =>
              TopLevel(config_data') = FileTopLevel(fs)
       /\ last'.op \in {"remove", "update"} =>
              TopLevel(config_data') = TopLevel(config_data)
       /\ last'.op = "save" => config_data' = config_data
       /\ (last'.op = "save" /\ last'.ret = "True") =>
              /\ FileIsConfig(fs')
              /\ FileTopLevel(fs') = TopLevel(config_data)]_vars

\* a store that loaded the metadata, changed its projects and saved: the
\* file holds the metadata it held at first
MetadataSavedSeen ==
    /\ last.op = "save"
    /\ last.ret = "True"
    /\ FileIsConfig(fs)
    /\ FileTopLevel(fs) = TopLevel(ConfigMeta)
    /\ json_load(fs[ConfigPath]).val.v["projects"] # ConfigMeta.v["projects"]
    /\ DOMAIN json_load(fs[ConfigPath]).val.v["projects"].v = {"/p2"}

(***************************************************************************)
(* Properties of Project.to_dict and Project.from_dict, checked on         *)
(* SpecProject.                                                            *)
(***************************************************************************)
\* C24: for every Project p, from_dict(p.path, p.to_dict()) is equal to p
\* in every field.
ProjectRoundTrip ==
    (applied.f = "from_dict" /\ applied.arg.kind = "Project") =>
        \A f \in DOMAIN applied.arg.p : applied.out[f] = applied.arg.p[f]

\* the round trip of a Project none of whose fields holds its default
ProjectRoundTripSeen ==
    /\ applied.f = "from_dict"
    /\ applied.arg.kind = "Project"
    /\ applied.arg.p = ProjectFull
    /\ \A f \in Range(FieldNames) : applied.out[f] # NewProject("/p1")[f]

\* C25: from_dict of a raw map that lacks any set of the 13 storage keys
\* returns a Project in which the field of each absent key holds its
\* default (empty list, empty dict, False or 0) and the field of each key
\* that is there holds what the map holds.
AbsentKeysTakeDefaults ==
    (applied.f = "from_dict" /\ applied.arg.kind = "raw"
        /\ applied.arg.data \in RawMissing) =>
        /\ applied.out.path = applied.arg.path
        /\ \A k \in Range(ProjectKeys) :
              applied.out[FieldName(k)] =
                  IF k \in DOMAIN applied.arg.data.v
                  THEN applied.arg.data.v[k]
                  ELSE NewProject(applied.arg.path)[FieldName(k)]

\* from_dict of a map that lacks the history, the counter and the flags and
\* has the rest
SomeKeysAbsentSeen ==
    /\ applied.f = "from_dict"
    /\ applied.arg.kind = "raw"
    /\ DOMAIN applied.arg.data.v =
          {"allowedTools", "mcpServers", "enabledMcpjsonServers", "disabledMcpjsonServers",
           "ignorePatterns", "mcpContextUris"}
    /\ applied.out.history = EmptyList
    /\ applied.out.project_onboarding_seen_count = JInt(0)
    /\ applied.out.dont_crawl_directory = JBool(FALSE)
    /\ applied.out.mcp_servers = ProjectFull.mcp_servers

\* C26: from_dict of any raw map, one in which a known key holds null or a
\* value of the wrong shape included, returns a Project whose every field
\* has the shape documented for it, and history_count can be evaluated on
\* it.
FromDictFieldsWellShaped ==
    /\ (applied.f = "from_dict" /\ applied.arg.kind = "raw") =>
          \A f \in Range(FieldNames) :
              applied.out[f].t = NewProject(applied.arg.path)[f].t
    /\ (applied.f = "history_count" /\ applied.arg.kind = "raw") => ~applied.out.raised

(***************************************************************************)
(* Properties of the command-line program and the user interfaces,         *)
(* checked on SpecUI.                                                      *)
(***************************************************************************)
\* C28: in a run started with --no-backup no handler of the user
\* interface the program runs adds a file to the backup directory or
\* changes one.
NoBackupOptionHolds ==
    [][(no_backup /\ last'.op \in TuiHandlers /\ UiOperation(last'.op)) => backup_dir' = backup_dir]_vars

\* C29: whenever a handler of tui.py, ui.py or simple_ui.py has saved its
\* change, create_backup was called in the same handler, by the handler or
\* by save_config, before the file was written: and when that call
\* returned a path, the backup at that path holds the text the
\* configuration file had before the handler ran.
SaveFollowsBackup ==
    [][(last'.op \in Handlers /\ last'.ret = "True" /\ UiOperation(last'.op)) =>
          /\ last'.bret # "-"
          /\ last'.bret = "Path" =>
                /\ Exists(backup_dir', last'.name)
                /\ backup_dir'[last'.name] = fs[ConfigPath]
                /\ fs'[ConfigPath] = Serialize(config_data')]_vars

\* a handler that leaves the backup to save_config has saved a change, and
\* the backup holds the earlier text
SavedAfterBackupSeen ==
    /\ last.op = "ui.edit_project.toggle_trust"
    /\ last.ret = "True"
    /\ last.bret = "Path"
    /\ ~last.same
    /\ Exists(backup_dir, last.name)
    /\ backup_dir[last.name] # fs[ConfigPath]

\* C30: when create_backup returns None in a handler of ui.py that removes
\* projects or clears or trims histories in a batch, the handler gives up:
\* the configuration in memory and the configuration file are what they
\* were.
FailedBackupCancels ==
    [][(last'.op \in UiHandlers /\ BackupStyle(last'.op) = "checked"
           /\ last'.bret = "None" /\ UiOperation(last'.op)) =>
          /\ last'.ret = "cancelled"
          /\ config_data' = config_data
          /\ fs' = fs]_vars

\* a removal in ui.py given up for want of a backup: the project is still
\* in memory
RemovalCancelledSeen ==
    /\ last.op = "ui.remove_projects"
    /\ last.bret = "None"
    /\ last.ret = "cancelled"
    /\ last.fault = "copy"
    /\ "/p1" \in DOMAIN RawProjects(config_data)


(***************************************************************************)
(* Properties of backup management in ui.py, checked on SpecManage.        *)
(***************************************************************************)
\* C31: when the user confirms a restore in backup_management (ui.py) and
\* the restore overwrites the configuration file, the configuration is
\* backed up first: after the handler some backup holds the text the
\* configuration file had before it.
UiRestoreBacksUpFirst ==
    [][ ( /\ last'.op = "restore"
          /\ UiRestoreOp
          /\ Exists(fs, ConfigPath)
          /\ ~SameFile(fs, fs', ConfigPath) ) =>
            \E q \in DOMAIN backup_dir' : backup_dir'[q] = fs[ConfigPath] ]_vars

\* C32: "Delete old backups" with keep_count on a list of more than
\* keep_count backups leaves exactly the keep_count most recent backups.
UiDeleteKeepsNewest ==
    (last.op = "ui.backup_management.delete" /\ last.m > last.n) => last.newest


(***************************************************************************)
(* Properties of "keep only recent entries", checked on SpecKeep.          *)
(***************************************************************************)
\* C33: "keep only recent entries" with keep count K, once saved, has left
\* each project's history equal to its last min(K, length) entries in their
\* order, and the number ui.py reports as removed is the number of entries
\* removed, for every K >= 0 the handler takes.
KeepRecentKeepsLast ==
    [][ \A h \in {"tui._do_keep_recent", "ui.clear_history.keep_recent"} :
          ( /\ last'.op = h
            /\ KeepRecentOp(h)
            /\ last'.ret = "True"
            /\ last'.keep_count >= 0 ) =>
             LET before == get_projects(config_data)
                 after == get_projects(config_data')
                 removed == [path \in DOMAIN before |->
                                len(before[path].history) - len(after[path].history)]
             IN /\ \A path \in DOMAIN before :
                      LET old == before[path].history.v
                          k == Max(0, Min(last'.keep_count, Len(old)))
                      IN after[path].history.v = SubSeq(old, Len(old) - k + 1, Len(old))
                /\ h = "ui.clear_history.keep_recent" =>
                      last'.reported = SumOver(removed, DOMAIN before) ]_vars


(***************************************************************************)
(* Properties of cli.main and SignalHandler, checked on SpecMain.          *)
(***************************************************************************)
\* C34: main runs the TUI only after load_config has returned True; when
\* load_config returns False it prints the failure message and exits with
\* status 1 without running the TUI, and when the load raises it exits with
\* status 1.
TuiOnlyAfterLoad ==
    /\ main.tui => main.load = "True"
    /\ main.load = "False" =>
          /\ ~main.tui
          /\ main.state = "exited"
          /\ main.status = "1"
          /\ main.message = "Failed to load configuration. Exiting."
    /\ main.load = "raised" => (~main.tui /\ main.state = "exited" /\ main.status = "1")

\* main has exited with status 1 on a configuration file that did not load
FailedLoadExitSeen ==
    /\ main.load = "False"
    /\ main.state = "exited"
    /\ main.status = "1"
    /\ ~Exists(fs, ConfigPath)

\* C35: after SignalHandler.__exit__ the handlers for SIGINT and SIGTERM
\* are the ones that were installed before __enter__.
ExitRestoresHandlers ==
    signal_handler.state = "exited" =>
        /\ signals.SIGINT = signal_handler.before.SIGINT
        /\ signals.SIGTERM = signal_handler.before.SIGTERM


(***************************************************************************)
(* Properties of the TUI after a restore, checked on SpecTui.              *)
(***************************************************************************)
\* C39: after a successful restore from the backup screen, a write-back
\* from the screens of the TUI passes update_project a Project derived from
\* the restored configuration: the fields the handler does not edit keep
\* the values the store held before the write-back.
WriteBackKeepsRestored ==
    [][ \A h \in TuiHandlers \ {"tui._do_delete"} :
          (main.restored /\ last'.op = h /\ UiOperation(h)) =>
             \A path \in DOMAIN get_projects(config_data) \cap
                         DOMAIN get_projects(config_data') :
             \A f \in Range(FieldNames) \ {Edited(h)} :
                get_projects(config_data')[path][f] = get_projects(config_data)[path][f]
      ]_vars


(***************************************************************************)
(* Properties of save_config on a store that has not loaded, checked on    *)
(* Spec.                                                                   *)
(***************************************************************************)
\* C36: save_config does not ask whether the store has loaded: a call that
\* meets no failure returns True and leaves the configuration file holding
\* the configuration in memory, whatever the file held before.
SaveWritesMemoryUnguarded ==
    (last.op = "save" /\ last.ret # "-" /\ last.fault = "none") =>
        /\ last.ret = "True"
        /\ Exists(fs, ConfigPath)
        /\ fs[ConfigPath] = Serialize(config_data)

\* in a run without failures a store that holds nothing has saved over a
\* configuration file that held something else: the file is now {}
EmptyStoreOverwroteSeen ==
    /\ last.op = "save"
    /\ last.ret = "True"
    /\ nfaults = 0
    /\ config_data = EmptyDict
    /\ last.existed
    /\ ~last.same
    /\ fs[ConfigPath] = Serialize(EmptyDict)


(***************************************************************************)
(* Properties of writing a Project back, checked on SpecEdit.               *)
(***************************************************************************)
\* C37: update_project(get_projects()[path]), the Project unmodified,
\* leaves the raw entry of path in memory equal to what it was, keys outside
\* the 13 storage keys included.
WriteBackIsIdentity ==
    [][ \A path \in PathInputs :
          WriteBack(path) => RawProjects(config_data')[path] = RawProjects(config_data)[path]
      ]_vars

(***************************************************************************)
(* Properties of the files the store and its backups leave, checked on     *)
(* SpecValid.                                                              *)
(***************************************************************************)
\* a file of a directory parses as a JSON object
ParsesAsObject(dir, path) ==
    /\ json_load(dir[path]).ok
    /\ IsDict(json_load(dir[path]).val)

\* C38: started on a configuration file that is absent or holds a JSON
\* object and on an empty backup directory, after any sequence of
\* load_config, remove_project, update_project, save_config, create_backup
\* and restore_from_backup calls the configuration file, if present, and
\* every backup file parse as JSON objects, and restore_from_backup on a
\* listed backup has returned True.
FilesStayObjects ==
    pc = "idle" =>
        /\ Exists(fs, ConfigPath) => ParsesAsObject(fs, ConfigPath)
        /\ \A q \in DOMAIN backup_dir : ParsesAsObject(backup_dir, q)
        /\ last.op = "restore" => last.ret = "True"

=============================================================================
